---- MODULE Spec2Model ----
(***************************************************************************)
(* Review Orchestration Engine of ralph-loop: the guardrail evaluator,     *)
(* the deduplicating review queue, the rate-limited dispatcher, the        *)
(* inspection ledger and the approval gate.                                *)
(*                                                                         *)
(* The specifications share the variables below:                          *)
(*   Spec         review queue + dispatcher + token bucket                 *)
(*   SpecBuild    build store, inspection ledger, approval gate            *)
(*   SpecLimiter  the token bucket alone, driven by a simulated clock      *)
(*   SpecGuard    the pure guardrail evaluator, over bounded inputs        *)
(* Every database statement (one awaited conn.execute / fetch / fetchrow)  *)
(* is one atomic step: the handlers run on autocommit connections, so      *)
(* other requests interleave between any two statements of a handler.      *)
(***************************************************************************)
EXTENDS Integers, Sequences, FiniteSets, TLC

VARIABLES
    queue,        \* ralph_review_queue: row id -> row
    nextId,       \* next primary key / created_at sequence number
    dispatches,   \* ralph_review_dispatches: append-only sequence of rows
    enq,          \* enqueue_review calls in flight, per client
    disp,         \* the dispatcher job: position in dispatch_pending_reviews
    bucket,       \* Redis value of ralph:review_dispatch:rate_limit
    now,          \* wall clock, seconds
    dbFaults,     \* store failures that have occurred during dispatch
    inst,         \* SpecOverlap: the dispatcher jobs of several processes
    builds,       \* ralph_builds: build_id -> row
    inspections,  \* ralph_inspections: sequence of rows
    sub,          \* submit_inspection calls in flight, per reviewer
    apr,          \* approve_build calls in flight, per caller
    settings,     \* Settings read from the environment
    revisions,    \* ralph_revisions: set of rows
    tg,           \* the Telegram webhook: a callback being handled
    rev,          \* a request_revision call in flight
    rd,           \* the last read-only tool call and what it returned
    reqlog,       \* SpecLimiter: the admission requests made so far
    guardEval     \* SpecGuard: the guardrail evaluations made

vars == <<queue, nextId, dispatches, enq, disp, inst, bucket, now, dbFaults,
          builds, inspections, sub, apr, settings, revisions, tg, rev, rd,
          reqlog, guardEval>>

queueVars   == <<queue, nextId, dispatches, enq, disp, inst, dbFaults>>
limiterVars == <<bucket, now>>
buildVars   == <<builds, inspections, sub, apr, settings, revisions, tg, rev, rd>>

(***************************************************************************)
(* Python's Optional[T]: None or a value.                                  *)
(***************************************************************************)
None == [some |-> FALSE]
Some(v) == [some |-> TRUE, val |-> v]

\* Python truthiness of an Optional[str] / Optional[list]: None, "" and []
\* are all falsy.
Truthy(o) == o.some /\ Len(o.val) > 0

(***************************************************************************)
(* Guardrail evaluator (app/api/builds.py).                                *)
(***************************************************************************)
FORBIDDEN_PATHS ==
    << "backend/app/core/security",
       "backend/app/services/billing",
       "backend/app/core/config.py",
       ".env",
       "secrets" >>

DEPENDENCY_FILES ==
    << "requirements.txt",
       "package.json",
       "package-lock.json",
       "pnpm-lock.yaml",
       "yarn.lock",
       "Cargo.toml",
       "Cargo.lock",
       "go.mod",
       "go.sum" >>

\* Python's `needle in haystack` on str: substring containment.
StrContains(needle, haystack) ==
    \E i \in 1..(Len(haystack) - Len(needle) + 1) :
        SubSeq(haystack, i, i + Len(needle) - 1) = needle

\* any(rule in f for f in changed_files)
AnyFileMatches(rule, files) ==
    \E k \in 1..Len(files) : StrContains(rule, files[k])

\* the for-loops appending to `reasons`: one reason per matching rule, in
\* rule order
RECURSIVE RuleReasons(_, _, _, _)
RuleReasons(rules, prefix, files, k) ==
    IF k > Len(rules) THEN <<>>
    ELSE (IF AnyFileMatches(rules[k], files)
             THEN << prefix \o rules[k] >>
             ELSE <<>>)
         \o RuleReasons(rules, prefix, files, k + 1)

\* "; ".join(reasons)
RECURSIVE Join(_)
Join(parts) ==
    IF Len(parts) = 0 THEN ""
    ELSE IF Len(parts) = 1 THEN parts[1]
    ELSE parts[1] \o "; " \o Join(Tail(parts))

\* A plausible slip: reasons collected file by file instead of rule by rule.
RECURSIVE FileReasons(_, _)
FileReasons(files, k) ==
    IF k > Len(files) THEN <<>>
    ELSE RuleReasons(FORBIDDEN_PATHS, "Protected area: ", <<files[k]>>, 1)
         \o RuleReasons(DEPENDENCY_FILES, "Dependency change: ", <<files[k]>>, 1)
         \o FileReasons(files, k + 1)

check_requires_approval_per_file(changed_files, diff) ==
    IF ~Truthy(changed_files)
        THEN [requires_approval |-> FALSE, reason |-> None]
        ELSE LET reasons == FileReasons(changed_files.val, 1)
             IN  IF Len(reasons) > 0
                    THEN [requires_approval |-> TRUE, reason |-> Some(Join(reasons))]
                    ELSE [requires_approval |-> FALSE, reason |-> None]

\* A plausible slip: the dependency-manifest rules are left out.
check_requires_approval_no_deps(changed_files, diff) ==
    IF ~Truthy(changed_files)
        THEN [requires_approval |-> FALSE, reason |-> None]
        ELSE LET reasons ==
                    RuleReasons(FORBIDDEN_PATHS, "Protected area: ", changed_files.val, 1)
             IN  IF Len(reasons) > 0
                    THEN [requires_approval |-> TRUE, reason |-> Some(Join(reasons))]
                    ELSE [requires_approval |-> FALSE, reason |-> None]

check_requires_approval(changed_files, diff) ==
    IF ~Truthy(changed_files)
        THEN [requires_approval |-> FALSE, reason |-> None]
        ELSE LET reasons ==
                    RuleReasons(FORBIDDEN_PATHS, "Protected area: ", changed_files.val, 1)
                    \o RuleReasons(DEPENDENCY_FILES, "Dependency change: ", changed_files.val, 1)
             IN  IF Len(reasons) > 0
                    THEN [requires_approval |-> TRUE, reason |-> Some(Join(reasons))]
                    ELSE [requires_approval |-> FALSE, reason |-> None]

(***************************************************************************)
(* Token bucket (ReviewDispatcher._check_rate_limit).                      *)
(*                                                                         *)
(* The code keeps `tokens` as a float.  The model keeps tokens *           *)
(* REVIEW_RATE_WINDOW as an integer, so that one token is                  *)
(* REVIEW_RATE_WINDOW units and one second refills REVIEW_RATE_LIMIT       *)
(* units.  Clocks move on a grid of 450 s; on that grid every float        *)
(* operation of the code is exact (each value is a multiple of 0.5), so    *)
(* the integer arithmetic decides `tokens >= 1.0` as the code does.        *)
(***************************************************************************)
REVIEW_RATE_LIMIT == 4
REVIEW_RATE_WINDOW == 3600
BUCKET_TTL == 7200

OneToken == REVIEW_RATE_WINDOW
Capacity == REVIEW_RATE_LIMIT * REVIEW_RATE_WINDOW

Min(a, b) == IF a <= b THEN a ELSE b

\* the Redis key before its first SET or after its expiry
NoBucket == [set |-> FALSE]

\* redis_client.get(key): the value, unless the key is absent or expired
RedisGet(b, t) ==
    IF b.set /\ t < b.expires_at
        THEN Some([tokens |-> b.tokens, last_update |-> b.last_update])
        ELSE None

\* redis_client.set(key, f"{tokens}:{now}", ex=7200)
RedisSet(tokens, t) ==
    [set |-> TRUE, tokens |-> tokens, last_update |-> t, expires_at |-> t + BUCKET_TTL]

\* the refilled token count of lines 92-103
Refilled(b, t) ==
    LET bucket_data == RedisGet(b, t)
        tokens      == IF bucket_data.some THEN bucket_data.val.tokens ELSE Capacity
        last_update == IF bucket_data.some THEN bucket_data.val.last_update ELSE t
        elapsed     == t - last_update
    IN  Min(Capacity, tokens + elapsed * REVIEW_RATE_LIMIT)

\* A plausible slip: the elapsed time is never credited.
check_rate_limit_no_refill(b, t, up) ==
    IF ~up
        THEN [allowed |-> TRUE, bucket |-> b]
        ELSE LET data   == RedisGet(b, t)
                 tokens == IF data.some THEN data.val.tokens ELSE Capacity
             IN  IF tokens >= OneToken
                    THEN [allowed |-> TRUE, bucket |-> RedisSet(tokens - OneToken, t)]
                    ELSE [allowed |-> FALSE, bucket |-> b]

\* A plausible slip: a refusal stamps the bucket with the current time and
\* the tokens it had stored, so the time waited is lost.
check_rate_limit_refusal_restamps(b, t, up) ==
    IF ~up
        THEN [allowed |-> TRUE, bucket |-> b]
        ELSE IF Refilled(b, t) >= OneToken
                THEN [allowed |-> TRUE, bucket |-> RedisSet(Refilled(b, t) - OneToken, t)]
                ELSE [allowed |-> FALSE,
                      bucket |-> IF RedisGet(b, t).some THEN RedisSet(b.tokens, t) ELSE b]

\* A plausible slip: without Redis the limiter refuses.
check_rate_limit_fail_closed(b, t, up) ==
    IF ~up
        THEN [allowed |-> FALSE, bucket |-> b]
        ELSE IF Refilled(b, t) >= OneToken
                THEN [allowed |-> TRUE, bucket |-> RedisSet(Refilled(b, t) - OneToken, t)]
                ELSE [allowed |-> FALSE, bucket |-> b]

\* _check_rate_limit: fails open without Redis; otherwise refill, then admit
\* and store iff a whole token is there.  A refusal stores nothing.
check_rate_limit(b, t, up) ==
    IF ~up
        THEN [allowed |-> TRUE, bucket |-> b]
        ELSE IF Refilled(b, t) >= OneToken
                THEN [allowed |-> TRUE, bucket |-> RedisSet(Refilled(b, t) - OneToken, t)]
                ELSE [allowed |-> FALSE, bucket |-> b]

\* whole tokens the bucket would hold at time t
WholeTokens(b, t) == Refilled(b, t) \div OneToken

(***************************************************************************)
(* Review queue (ralph_review_queue) and enqueue_review.                   *)
(***************************************************************************)
\* rows of the table with a given status
RowsWithStatus(q, st) == { id \in DOMAIN q : q[id].status = st }

\* WHERE project_id = $1 AND task_id = $2 AND queue_type = $3.  SQL `=` is
\* never true of a NULL task_id.
SameKey(r, project_id, task_id, queue_type) ==
    /\ r.project_id = project_id
    /\ r.task_id.some /\ task_id.some /\ r.task_id.val = task_id.val
    /\ r.queue_type = queue_type

\* A plausible slip: the DELETE forgets AND status = 'PENDING'.
DeleteTargetsAnyStatus(q, project_id, task_id, queue_type) ==
    { id \in DOMAIN q : SameKey(q[id], project_id, task_id, queue_type) }

\* the rows the DELETE of enqueue_review removes
DeleteTargets(q, project_id, task_id, queue_type) ==
    { id \in DOMAIN q : /\ SameKey(q[id], project_id, task_id, queue_type)
                        /\ q[id].status = "PENDING" }

\* A plausible slip: the partial unique index is missing.
NoUniqueIndex(q, r) == FALSE

\* ix_ralph_review_queue_unique_pending: a PENDING row with the same
\* (project_id, task_id, queue_type) already exists.  Rows with a NULL
\* task_id never collide.
UniquePendingViolated(q, r) ==
    /\ r.status = "PENDING"
    /\ \E id \in DOMAIN q :
          /\ q[id].status = "PENDING"
          /\ SameKey(q[id], r.project_id, r.task_id, r.queue_type)

\* the row of INSERT INTO ralph_review_queue (...) VALUES (..., 'PENDING');
\* created_at is the insertion sequence number
NewRow(a, seq) ==
    [build_id |-> a.build_id, project_id |-> a.project_id, task_id |-> a.task_id,
     queue_type |-> a.queue_type, priority |-> a.priority, status |-> "PENDING",
     created_at |-> seq, dispatched |-> FALSE, error_message |-> None]

\* f with the keys of S removed
Without(f, S) == [x \in DOMAIN f \ S |-> f[x]]

\* f with key k bound to v
With(f, k, v) == [x \in DOMAIN f \cup {k} |-> IF x = k THEN v ELSE f[x]]

\* ON DELETE CASCADE of ralph_review_dispatches.review_queue_pk
CascadeDispatches(ds, gone) == SelectSeq(ds, LAMBDA d : d.review_queue_pk \notin gone)

EnqClients == { "c1", "c2" }
MaxEnqueues == 2

\* the calls made: a task in both queues and at both priorities, builds
\* without a task, and a task_id of ""
EnqueueInputs ==
    { [project_id |-> "p1", task_id |-> Some("t1"), queue_type |-> "CODE", priority |-> 5],
      [project_id |-> "p1", task_id |-> Some("t1"), queue_type |-> "CODE", priority |-> 8],
      [project_id |-> "p1", task_id |-> Some("t1"), queue_type |-> "PLAN", priority |-> 5],
      [project_id |-> "p1", task_id |-> None, queue_type |-> "CODE", priority |-> 5],
      [project_id |-> "p1", task_id |-> None, queue_type |-> "CODE", priority |-> 8],
      [project_id |-> "p1", task_id |-> Some(""), queue_type |-> "CODE", priority |-> 5] }

EnqIdle == [pc |-> "idle"]

\* the arguments of a call; each call is for a build of its own
EnqArgs(in) ==
    [build_id |-> nextId.build, project_id |-> in.project_id, task_id |-> in.task_id,
     queue_type |-> in.queue_type, priority |-> in.priority]

\* the INSERT statement: the row is added, or the unique index refuses it
\* and the call raises
InsertRow(c, a) ==
    LET r == NewRow(a, nextId.row) IN
    IF UniquePendingViolated(queue, r)
        THEN /\ queue' = queue
             /\ nextId' = nextId
             /\ enq' = [enq EXCEPT ![c] = EnqIdle]
        ELSE /\ queue' = With(queue, nextId.row, r)
             /\ nextId' = [nextId EXCEPT !.row = nextId.row + 1]
             /\ enq' = [enq EXCEPT ![c] = EnqIdle]

\* enqueue_review with a truthy task_id, first statement: DELETE the PENDING
\* rows of the key
EnqueueDeleteOf(c, inputs) ==
    /\ enq[c].pc = "idle"
    /\ nextId.build <= MaxEnqueues
    /\ \E in \in inputs :
          /\ Truthy(in.task_id)
          /\ LET gone == DeleteTargets(queue, in.project_id, in.task_id, in.queue_type) IN
              /\ queue' = Without(queue, gone)
              /\ dispatches' = CascadeDispatches(dispatches, gone)
              /\ enq' = [enq EXCEPT ![c] =
                            [pc |-> "insert", args |-> EnqArgs(in)]]
    /\ nextId' = [nextId EXCEPT !.build = nextId.build + 1]
    /\ UNCHANGED <<disp, dbFaults, limiterVars, buildVars, reqlog, guardEval, inst>>

EnqueueDelete(c) == EnqueueDeleteOf(c, EnqueueInputs)

\* enqueue_review with a truthy task_id, second statement: INSERT
EnqueueInsert(c) ==
    /\ enq[c].pc = "insert"
    /\ InsertRow(c, enq[c].args)
    /\ UNCHANGED <<dispatches, disp, dbFaults, limiterVars, buildVars, reqlog, guardEval, inst>>

\* A plausible slip: the DELETE runs for a missing task_id too, matching the
\* PENDING rows that have none.
EnqueueNoTaskSuperseding(c) ==
    /\ enq[c].pc = "idle"
    /\ nextId.build <= MaxEnqueues
    /\ \E in \in EnqueueInputs :
          /\ ~Truthy(in.task_id)
          /\ LET gone == { id \in RowsWithStatus(queue, "PENDING") :
                              /\ queue[id].project_id = in.project_id
                              /\ queue[id].task_id = in.task_id
                              /\ queue[id].queue_type = in.queue_type }
                 r    == NewRow(EnqArgs(in), nextId.row)
             IN  /\ queue' = With(Without(queue, gone), nextId.row, r)
                 /\ nextId' = [row |-> nextId.row + 1, build |-> nextId.build + 1]
    /\ enq' = enq
    /\ UNCHANGED <<dispatches, disp, dbFaults, limiterVars, buildVars, reqlog, guardEval, inst>>

\* enqueue_review with task_id None or "": the INSERT is the only statement
EnqueueNoTaskOf(c, inputs) ==
    /\ enq[c].pc = "idle"
    /\ nextId.build <= MaxEnqueues
    /\ \E in \in inputs :
          /\ ~Truthy(in.task_id)
          /\ LET r == NewRow(EnqArgs(in), nextId.row) IN
              IF UniquePendingViolated(queue, r)
                 THEN /\ queue' = queue
                      /\ nextId' = [nextId EXCEPT !.build = nextId.build + 1]
                 ELSE /\ queue' = With(queue, nextId.row, r)
                      /\ nextId' = [row |-> nextId.row + 1, build |-> nextId.build + 1]
    /\ enq' = enq
    /\ UNCHANGED <<dispatches, disp, dbFaults, limiterVars, buildVars, reqlog, guardEval, inst>>

EnqueueNoTask(c) == EnqueueNoTaskOf(c, EnqueueInputs)

(***************************************************************************)
(* ReviewDispatcher.dispatch_pending_reviews, run by the scheduler job.    *)
(***************************************************************************)
DISPATCHER_BATCH_SIZE == 10

MaxDbFaults == 1

\* A plausible slip: the queue is served oldest first, whatever the priority.
FetchedBeforeByAge(q, a, b) == q[a].created_at < q[b].created_at

\* ORDER BY priority DESC, created_at ASC: a comes before b
FetchedBefore(q, a, b) ==
    \/ q[a].priority > q[b].priority
    \/ q[a].priority = q[b].priority /\ q[a].created_at < q[b].created_at

\* the ids of S in fetch order, at most `limit` of them
RECURSIVE OrderedRows(_, _, _)
OrderedRows(q, S, limit) ==
    IF S = {} \/ limit = 0 THEN << >>
    ELSE LET first == CHOOSE a \in S : \A b \in S \ {a} : FetchedBefore(q, a, b)
         IN  << first >> \o OrderedRows(q, S \ {first}, limit - 1)

\* _fetch_pending_reviews: the PENDING rows, ordered, LIMIT $1; each fetched
\* row is a snapshot (its id and build_id are what the cycle uses later)
fetch_pending_reviews(q, limit) ==
    LET ids == OrderedRows(q, RowsWithStatus(q, "PENDING"), limit)
    IN  [k \in 1..Len(ids) |-> [id |-> ids[k], build_id |-> q[ids[k]].build_id]]

\* UPDATE ralph_review_queue SET status = ..., ... WHERE id = $n: no row
\* matches when the row was deleted after the fetch
UpdateStatus(q, id, st, dispatched, msg) ==
    IF id \in DOMAIN q
        THEN [q EXCEPT ![id].status = st, ![id].dispatched = dispatched,
                       ![id].error_message = msg]
        ELSE q

\* the row of INSERT INTO ralph_review_dispatches on success / on error
DispatchRow(review, code, error_type, body) ==
    [review_queue_pk |-> review.id, build_id |-> review.build_id,
     inspector_model |-> "gpt-5.2", dispatch_method |-> "mcp_poll",
     api_response_code |-> code, error_type |-> error_type, api_response_body |-> body]

\* the foreign key of ralph_review_dispatches.review_queue_pk
ForeignKeyViolated(q, review) == review.id \notin DOMAIN q

DispIdle == [pc |-> "idle"]

\* the entry the loop is at
Current == disp.fetched[disp.i]

\* the status of every fetched row as the cycle ends
FinalStatuses(q, fetched) ==
    [k \in 1..Len(fetched) |->
        IF fetched[k].id \in DOMAIN q THEN q[fetched[k].id].status ELSE "DELETED"]

\* the for-loop goes on to the next fetched review, or the cycle returns
\* its stats
LoopNext(d, q) ==
    IF d.i < Len(d.fetched)
        THEN [d EXCEPT !.pc = "check", !.i = d.i + 1]
        ELSE [d EXCEPT !.pc = "done", !.final = FinalStatuses(q, d.fetched)]

\* dispatch_pending_reviews up to the loop: fetch; with nothing PENDING the
\* cycle returns at once
CycleFetch ==
    /\ disp.pc = "idle"
    /\ LET fetched == fetch_pending_reviews(queue, DISPATCHER_BATCH_SIZE) IN
        disp' = IF Len(fetched) = 0
                   THEN [pc |-> "done", fetched |-> fetched, i |-> 0,
                         dispatched |-> 0, failed |-> 0, rate_limited |-> 0,
                         tokens_at_start |-> WholeTokens(bucket, now),
                         limiter_worked |-> TRUE, failed_open |-> 0,
                         transitioned |-> {}, error |-> "", final |-> << >>]
                   ELSE [pc |-> "check", fetched |-> fetched, i |-> 1,
                         dispatched |-> 0, failed |-> 0, rate_limited |-> 0,
                         tokens_at_start |-> WholeTokens(bucket, now),
                         limiter_worked |-> TRUE, failed_open |-> 0,
                         transitioned |-> {}, error |-> "", final |-> << >>]
    /\ UNCHANGED <<queue, nextId, dispatches, enq, dbFaults, limiterVars, buildVars,
                   reqlog, guardEval, inst>>

\* A plausible slip: the loop goes on after a refusal.
RateLimitStepIgnoringRefusal ==
    /\ disp.pc = "check"
    /\ \E up \in BOOLEAN :
        LET r == check_rate_limit(bucket, now, up) IN
        /\ bucket' = r.bucket
        /\ disp' = [disp EXCEPT !.pc = "update",
                                !.limiter_worked = disp.limiter_worked /\ up,
                                !.failed_open = disp.failed_open + (IF up THEN 0 ELSE 1)]
    /\ UNCHANGED <<queue, nextId, dispatches, enq, dbFaults, now, buildVars,
                   reqlog, guardEval, inst>>

\* A plausible slip: a refusal counts one entry as rate limited, the one the
\* loop is at.
RateLimitStepCountingOne ==
    /\ disp.pc = "check"
    /\ \E up \in BOOLEAN :
        LET r == check_rate_limit(bucket, now, up) IN
        /\ bucket' = r.bucket
        /\ disp' = IF r.allowed
                      THEN [disp EXCEPT !.pc = "update",
                                        !.limiter_worked = disp.limiter_worked /\ up,
                                        !.failed_open = disp.failed_open + (IF up THEN 0 ELSE 1)]
                      ELSE [disp EXCEPT !.pc = "done",
                                        !.failed_open = disp.failed_open + (IF up THEN 0 ELSE 1),
                                        !.rate_limited = disp.rate_limited + 1,
                                        !.final = FinalStatuses(queue, disp.fetched)]
    /\ UNCHANGED <<queue, nextId, dispatches, enq, dbFaults, now, buildVars,
                   reqlog, guardEval, inst>>

\* can_dispatch = await self._check_rate_limit(); a refusal ends the cycle.
\* Redis is reachable for this check, or it is not (`up`).
RateLimitStep ==
    /\ disp.pc = "check"
    /\ \E up \in BOOLEAN :
        LET r == check_rate_limit(bucket, now, up) IN
        /\ bucket' = r.bucket
        /\ disp' = IF r.allowed
                      THEN [disp EXCEPT !.pc = "update",
                                        !.limiter_worked = disp.limiter_worked /\ up,
                                        !.failed_open = disp.failed_open + (IF up THEN 0 ELSE 1)]
                      ELSE [disp EXCEPT !.pc = "done",
                                        !.failed_open = disp.failed_open + (IF up THEN 0 ELSE 1),
                                        !.rate_limited =
                                            Len(disp.fetched) - (disp.dispatched + disp.failed),
                                        !.final = FinalStatuses(queue, disp.fetched)]
    /\ UNCHANGED <<queue, nextId, dispatches, enq, dbFaults, now, buildVars,
                   reqlog, guardEval, inst>>

\* _dispatch_review, first statement: UPDATE ... SET status = 'DISPATCHED'
DispatchUpdate ==
    /\ disp.pc = "update"
    /\ queue' = UpdateStatus(queue, Current.id, "DISPATCHED", TRUE, None)
    /\ disp' = [disp EXCEPT !.pc = "log",
                            !.transitioned = IF Current.id \in DOMAIN queue
                                                THEN disp.transitioned \cup {Current.id}
                                                ELSE disp.transitioned]
    /\ UNCHANGED <<nextId, dispatches, enq, dbFaults, limiterVars, buildVars, reqlog, guardEval, inst>>

\* _dispatch_review, second statement: INSERT the dispatch record; the
\* foreign key refuses it when the queue row is gone, and the except branch
\* is entered
DispatchLog ==
    /\ disp.pc = "log"
    /\ IF ForeignKeyViolated(queue, Current)
          THEN /\ dispatches' = dispatches
               /\ disp' = [disp EXCEPT !.pc = "fail_update", !.error = "ForeignKeyViolationError"]
          ELSE /\ dispatches' = Append(dispatches, DispatchRow(Current, 200, None, "dispatched"))
               /\ disp' = LoopNext([disp EXCEPT !.dispatched = disp.dispatched + 1], queue)
    /\ UNCHANGED <<queue, nextId, enq, dbFaults, limiterVars, buildVars, reqlog, guardEval, inst>>

\* a statement of the try block raises (connection lost, timeout): the
\* except branch is entered
DispatchStoreError ==
    /\ disp.pc \in { "update", "log" }
    /\ dbFaults < MaxDbFaults
    /\ dbFaults' = dbFaults + 1
    /\ disp' = [disp EXCEPT !.pc = "fail_update", !.error = "ConnectionError"]
    /\ UNCHANGED <<queue, nextId, dispatches, enq, limiterVars, buildVars, reqlog, guardEval, inst>>

\* except branch, first statement: UPDATE ... SET status = 'FAILED'
FailUpdate ==
    /\ disp.pc = "fail_update"
    /\ queue' = UpdateStatus(queue, Current.id, "FAILED",
                             IF Current.id \in DOMAIN queue
                                THEN queue[Current.id].dispatched ELSE FALSE,
                             Some(disp.error))
    /\ disp' = [disp EXCEPT !.pc = "fail_log"]
    /\ UNCHANGED <<nextId, dispatches, enq, dbFaults, limiterVars, buildVars, reqlog, guardEval, inst>>

\* except branch, second statement: INSERT the failed dispatch record; when
\* it raises, the error is only logged.  _dispatch_review returns False.
FailLog ==
    /\ disp.pc = "fail_log"
    /\ dispatches' = IF ForeignKeyViolated(queue, Current)
                        THEN dispatches
                        ELSE Append(dispatches,
                                    DispatchRow(Current, None, Some("dispatch_error"), disp.error))
    /\ disp' = LoopNext([disp EXCEPT !.failed = disp.failed + 1], queue)
    /\ UNCHANGED <<queue, nextId, enq, dbFaults, limiterVars, buildVars, reqlog, guardEval, inst>>

\* a statement of the except branch raises: logged, _dispatch_review
\* returns False
FailStoreError ==
    /\ disp.pc \in { "fail_update", "fail_log" }
    /\ dbFaults < MaxDbFaults
    /\ dbFaults' = dbFaults + 1
    /\ disp' = LoopNext([disp EXCEPT !.failed = disp.failed + 1], queue)
    /\ UNCHANGED <<queue, nextId, dispatches, enq, limiterVars, buildVars, reqlog, guardEval, inst>>

\* the job returns; the scheduler starts the next cycle after its interval
CycleReturn ==
    /\ disp.pc = "done"
    /\ disp' = DispIdle
    /\ UNCHANGED <<queue, nextId, dispatches, enq, dbFaults, limiterVars, buildVars,
                   reqlog, guardEval, inst>>

\* bucket states earlier cycles leave behind: 0 or 3/2 tokens stored at
\* time 0, or no key at all (a full bucket)
InitBuckets ==
    { NoBucket, RedisSet(0, 0), RedisSet(OneToken + OneToken \div 2, 0) }

Init ==
    /\ queue = << >>
    /\ nextId = [row |-> 1, build |-> 1]
    /\ dispatches = << >>
    /\ enq = [c \in EnqClients |-> EnqIdle]
    /\ disp = DispIdle
    /\ inst = << >>
    /\ dbFaults = 0
    /\ bucket \in InitBuckets
    /\ now = 0
    /\ builds = << >>
    /\ inspections = << >>
    /\ sub = << >>
    /\ apr = << >>
    /\ settings = [MAX_ITERATIONS |-> 3]
    /\ revisions = {}
    /\ tg = [pc |-> "idle"]
    /\ rev = [pc |-> "idle"]
    /\ rd = None
    /\ reqlog = << >>
    /\ guardEval = << >>

Next ==
    \/ \E c \in EnqClients : EnqueueDelete(c)
    \/ \E c \in EnqClients : EnqueueInsert(c)
    \/ \E c \in EnqClients : EnqueueNoTask(c)
    \/ CycleFetch
    \/ RateLimitStep
    \/ DispatchUpdate
    \/ DispatchLog
    \/ DispatchStoreError
    \/ FailUpdate
    \/ FailLog
    \/ FailStoreError
    \/ CycleReturn

Spec == Init /\ [][Next]_vars

(***************************************************************************)
(* Properties of the review queue and of the dispatch cycle (Spec).        *)
(***************************************************************************)
\* the key of a queue row
KeyOf(r) == [project_id |-> r.project_id, task_id |-> r.task_id, queue_type |-> r.queue_type]

\* the PENDING rows of a key
PendingOf(q, k) == { id \in DOMAIN q : q[id].status = "PENDING" /\ KeyOf(q[id]) = k }

\* C1: in every reachable state, whatever enqueue_review calls and dispatch
\* cycles interleaved before it, every key (project_id, task_id, queue_type)
\* with a non-null task_id has at most one PENDING row.
C1_AtMostOnePending ==
    \A a, b \in DOMAIN queue :
        ( /\ queue[a].status = "PENDING" /\ queue[b].status = "PENDING"
          /\ queue[a].task_id.some
          /\ KeyOf(queue[a]) = KeyOf(queue[b]) ) => a = b

\* a call is about to INSERT a second PENDING row of a key, and the unique
\* index is what stands in its way
C1_Witness ==
    \E c \in EnqClients :
        /\ enq[c].pc = "insert"
        /\ UniquePendingViolated(queue, NewRow(enq[c].args, nextId.row))

\* client c's step is the DELETE of a call / the INSERT that ends a call
IsDeleteStep(c) == enq[c].pc = "idle" /\ enq'[c].pc = "insert"
IsInsertStep(c) == enq[c].pc = "insert" /\ enq'[c].pc = "idle"

ShortOfTokens ==
    /\ disp.pc = "done"
    /\ disp.limiter_worked
    /\ disp.tokens_at_start < Len(disp.fetched)

\* C4 as stated: with k whole tokens and more than k fetched rows, the cycle
\* sets exactly k fetched rows to DISPATCHED and changes no other fetched
\* row (a row an enqueue_review call removed meanwhile is not counted as
\* changed by the cycle).
C4_AsStated ==
    ShortOfTokens =>
        /\ Cardinality(disp.transitioned) = disp.tokens_at_start
        /\ \A i \in 1..Len(disp.fetched) :
              disp.fetched[i].id \notin disp.transitioned
                  => disp.final[i] \in { "PENDING", "DELETED" }

\* C4: with k whole tokens and n > k fetched rows, the cycle attempts
\* exactly the first k rows (dispatched + failed = k, rate_limited = n - k);
\* it sets at most k rows to DISPATCHED, exactly k when no attempt fails, and
\* then the rows it did not attempt are PENDING unless an enqueue_review call
\* removed them; no cycle with a working limiter sets more rows to
\* DISPATCHED than the bucket held whole tokens.
C4_TokensBoundDispatch ==
    /\ (disp.pc # "idle" /\ disp.limiter_worked) =>
          /\ Cardinality(disp.transitioned) <= disp.tokens_at_start
          /\ disp.dispatched + disp.failed <= disp.tokens_at_start
    /\ ShortOfTokens =>
          LET k == disp.tokens_at_start
              n == Len(disp.fetched)
          IN  /\ disp.dispatched + disp.failed = k
              /\ disp.rate_limited = n - k
              /\ disp.transitioned \subseteq { disp.fetched[i].id : i \in 1..k }
              /\ disp.failed = 0 =>
                    /\ Cardinality(disp.transitioned) = k
                    /\ \A i \in (k+1)..n : disp.final[i] \in { "PENDING", "DELETED" }

\* one token, two or more fetched rows: the first went out, the second waits
C4_Witness ==
    /\ ShortOfTokens
    /\ disp.tokens_at_start = 1
    /\ Len(disp.fetched) >= 2
    /\ disp.dispatched = 1 /\ disp.failed = 0
    /\ disp.rate_limited = Len(disp.fetched) - 1
    /\ disp.final[1] = "DISPATCHED"
    /\ disp.final[2] = "PENDING"

(***************************************************************************)
(* Parts of the state a specification does not use stay at these values.   *)
(***************************************************************************)
QueueIdle ==
    /\ queue = << >>
    /\ nextId = [row |-> 1, build |-> 1]
    /\ dispatches = << >>
    /\ enq = [c \in EnqClients |-> EnqIdle]
    /\ disp = DispIdle
    /\ inst = << >>
    /\ dbFaults = 0

LimiterIdle ==
    /\ bucket = NoBucket
    /\ now = 0

BuildIdle ==
    /\ builds = << >>
    /\ inspections = << >>
    /\ sub = << >>
    /\ apr = << >>
    /\ settings = [MAX_ITERATIONS |-> 3]
    /\ revisions = {}
    /\ tg = [pc |-> "idle"]
    /\ rev = [pc |-> "idle"]
    /\ rd = None

(***************************************************************************)
(* SpecGuard: check_requires_approval over bounded inputs.                 *)
(***************************************************************************)
MaxFiles == 2

GuardPaths ==
    { "backend/app/core/security/auth.py",
      "README.md",
      "requirements.txt",
      "secrets/package.json",
      "backend/app/core/config.py",
      ".env.example" }

GuardDiffs == { None, Some("--- a/x +++ b/x") }

FileLists == UNION { [1..n -> GuardPaths] : n \in 0..MaxFiles }

GuardFiles == { None } \cup { Some(l) : l \in FileLists }

\* the set of paths of an Optional[List[str]]
FileSet(cf) == IF cf.some THEN { cf.val[k] : k \in 1..Len(cf.val) } ELSE {}

Evaluation(cf, d) ==
    [changed_files |-> cf, diff |-> d, result |-> check_requires_approval(cf, d)]

InitGuard ==
    /\ guardEval = << >>
    /\ QueueIdle /\ LimiterIdle /\ BuildIdle
    /\ reqlog = << >>

\* one call of the evaluator on a fresh input
Evaluate ==
    /\ guardEval = << >>
    /\ \E cf \in GuardFiles, d \in GuardDiffs :
          guardEval' = << Evaluation(cf, d) >>
    /\ UNCHANGED <<queueVars, limiterVars, buildVars, reqlog>>

\* a second call, on the same set of changed files: any order, any
\* repetition, any diff
EvaluateAgain ==
    /\ Len(guardEval) = 1
    /\ \E cf \in GuardFiles, d \in GuardDiffs :
          /\ FileSet(cf) = FileSet(guardEval[1].changed_files)
          /\ guardEval' = << guardEval[1], Evaluation(cf, d) >>
    /\ UNCHANGED <<queueVars, limiterVars, buildVars, reqlog>>

NextGuard == Evaluate \/ EvaluateAgain

SpecGuard == InitGuard /\ [][NextGuard]_vars

\* every rule with its reason prefix, forbidden-path rules first
AllRules ==
    [k \in 1..Len(FORBIDDEN_PATHS) |->
        [prefix |-> "Protected area: ", rule |-> FORBIDDEN_PATHS[k]]]
    \o [k \in 1..Len(DEPENDENCY_FILES) |->
        [prefix |-> "Dependency change: ", rule |-> DEPENDENCY_FILES[k]]]

RuleFires(r, cf) == \E f \in FileSet(cf) : StrContains(r.rule, f)

FiredRules(cf) == SelectSeq(AllRules, LAMBDA r : RuleFires(r, cf))

ExpectedReason(cf) ==
    Join([k \in 1..Len(FiredRules(cf)) |->
            FiredRules(cf)[k].prefix \o FiredRules(cf)[k].rule])

GuardExamples(e) ==
    /\ e.changed_files = Some(<< "backend/app/core/security/auth.py" >>)
        => e.result = [requires_approval |-> TRUE,
                       reason |-> Some("Protected area: backend/app/core/security")]
    /\ e.changed_files = Some(<< "README.md" >>)
        => e.result = [requires_approval |-> FALSE, reason |-> None]
    /\ e.changed_files = Some(<< "secrets/package.json" >>)
        => e.result.reason
             = Some("Protected area: secrets; Dependency change: package.json")

\* C8: check_requires_approval requires approval exactly when some changed
\* path matches a forbidden-path or dependency-manifest rule; the reason is
\* then the "; "-join of one reason per matching rule, forbidden-path rules
\* first; with no match, or an empty or absent file list, it is (False, None).
C8_GuardrailResult ==
    \A k \in 1..Len(guardEval) :
        LET e == guardEval[k] IN
        /\ e.result.requires_approval = (Len(FiredRules(e.changed_files)) > 0)
        /\ e.result.requires_approval
            => e.result.reason = Some(ExpectedReason(e.changed_files))
        /\ ~e.result.requires_approval => e.result.reason = None
        /\ FileSet(e.changed_files) = {} => e.result = [requires_approval |-> FALSE,
                                                        reason |-> None]
        /\ GuardExamples(e)

\* a build touching two rules at once has been evaluated
C8_Witness ==
    /\ Len(guardEval) >= 1
    /\ guardEval[1].changed_files = Some(<< "requirements.txt", "backend/app/core/config.py" >>)
    /\ guardEval[1].result.reason
         = Some("Protected area: backend/app/core/config.py; Dependency change: requirements.txt")

\* C9: the evaluator is deterministic and side-effect free: two evaluations
\* on the same set of changed files agree, whatever the order of the files
\* and the diff, and an evaluation changes no build, queue or ledger state.
C9_GuardrailDeterministic ==
    [][ guardEval' # guardEval =>
          /\ UNCHANGED <<queueVars, limiterVars, buildVars>>
          /\ (Len(guardEval') = 2
               /\ FileSet(guardEval'[1].changed_files) = FileSet(guardEval'[2].changed_files))
             => guardEval'[1].result = guardEval'[2].result ]_vars

\* the same two files were evaluated in both orders with different diffs
C9_Witness ==
    /\ Len(guardEval) = 2
    /\ guardEval[1].changed_files = Some(<< "requirements.txt", "secrets/package.json" >>)
    /\ guardEval[2].changed_files = Some(<< "secrets/package.json", "requirements.txt" >>)
    /\ guardEval[1].diff # guardEval[2].diff
    /\ guardEval[2].result.requires_approval

(***************************************************************************)
(* SpecLimiter: the token bucket under a simulated clock.  The bucket      *)
(* starts absent, which _check_rate_limit reads as full.  Redis stays       *)
(* reachable here; the dispatcher of Spec also runs without it.            *)
(***************************************************************************)
MaxClock == 8100
MaxRequests == 7

\* steps of the simulated clock: half a token, one token, the key's TTL
ClockSteps == { 450, 900, BUCKET_TTL }

InitLimiter ==
    /\ LimiterIdle
    /\ reqlog = << >>
    /\ QueueIdle /\ BuildIdle
    /\ guardEval = << >>

\* one call of _check_rate_limit at the current time
LimiterRequest ==
    /\ Len(reqlog) < MaxRequests
    /\ LET r == check_rate_limit(bucket, now, TRUE) IN
        /\ bucket' = r.bucket
        /\ reqlog' = Append(reqlog, [t |-> now, allowed |-> r.allowed,
                                     refilled |-> Refilled(bucket, now)])
    /\ UNCHANGED <<now, queueVars, buildVars, guardEval>>

\* time passes
ClockTick ==
    /\ \E d \in ClockSteps :
          /\ now + d <= MaxClock
          /\ now' = now + d
    /\ UNCHANGED <<bucket, reqlog, queueVars, buildVars, guardEval>>

NextLimiter == LimiterRequest \/ ClockTick

SpecLimiter == InitLimiter /\ [][NextLimiter]_vars

\* the requests made at time t
RequestsAt(t) == { i \in 1..Len(reqlog) : reqlog[i].t = t }

\* C7: starting full, REVIEW_RATE_LIMIT immediate requests are admitted and
\* the next immediate one is refused; REVIEW_RATE_WINDOW / REVIEW_RATE_LIMIT
\* seconds later, with no request in between, exactly one more request is
\* admitted and the one after it is refused.
C7_TokenBucketScenario ==
    Len(reqlog) > 0 =>
        LET t0    == reqlog[1].t
            t1    == t0 + (REVIEW_RATE_WINDOW \div REVIEW_RATE_LIMIT)
            later == RequestsAt(t1)
        IN  /\ \A i \in RequestsAt(t0) : reqlog[i].allowed = (i <= REVIEW_RATE_LIMIT)
            /\ ( /\ Cardinality(RequestsAt(t0)) >= REVIEW_RATE_LIMIT
                 /\ \A i \in 1..Len(reqlog) : reqlog[i].t = t0 \/ reqlog[i].t >= t1 )
               => \A i \in later :
                     reqlog[i].allowed = (\A j \in later : i <= j)

\* five immediate requests, then two more 900 s later
C7_Witness ==
    /\ Len(reqlog) = 7
    /\ [i \in 1..7 |-> reqlog[i].t] = << 0, 0, 0, 0, 0, 900, 900 >>
    /\ [i \in 1..7 |-> reqlog[i].allowed]
         = << TRUE, TRUE, TRUE, TRUE, FALSE, TRUE, FALSE >>

(***************************************************************************)
(* SpecBuild: builds, inspections and approval.  ingest_build (api/builds) *)
(* creates builds; handle_submit_inspection and handle_approve_build       *)
(* (mcp/server) run concurrently, one awaited statement per step.          *)
(***************************************************************************)
MaxBuilds == 1

Reviewers == { "r1", "r2" }
Approvers == { "a1" }

\* inspector_model = "gpt-5.2"
INSPECTOR_MODEL == "gpt-5.2"

\* the literal of `if build['iteration_count'] >= 3`
APPROVE_ITERATION_LIMIT == 3

\* values MAX_ITERATIONS is configured to; 3 is the default
ConfiguredMaxima == { 1, 3 }

\* the artifacts posted: one that touches no guarded path, one that touches
\* a dependency manifest
IngestFiles == { Some(<< "README.md" >>), Some(<< "requirements.txt" >>) }

\* what the calls pass as human_approved_by
HumanApprovers == { None, Some(""), Some("mihai") }

CallIdle == [pc |-> "idle", args |-> None, result |-> None]

\* artifact.task_id and artifact.builder_signal of the artifacts posted
IngestTasks == { Some("t1") }
IngestSignals == { "READY_FOR_REVIEW", "NEEDS_WORK" }

\* artifact.project_id of the artifacts posted, where one project is at work
DefaultProject == "p1"

\* the row of INSERT INTO ralph_builds
BuildRow(id, task_id, changed_files, builder_signal) ==
    LET g == check_requires_approval(changed_files, None) IN
    [build_id |-> id, project_id |-> DefaultProject,
     task_id |-> task_id, builder_signal |-> builder_signal,
     inspection_status |-> "PENDING", iteration_count |-> 1,
     requires_human_approval |-> g.requires_approval, approval_reason |-> g.reason,
     human_approved_by |-> None]

\* the BuildIngestResponse of ingest_build
IngestResponse(row) ==
    [status |-> "ingested", build_id |-> row.build_id,
     inspection_status |-> "PENDING",
     review_queued |-> (row.builder_signal = "READY_FOR_REVIEW"),
     requires_human_approval |-> row.requires_human_approval,
     approval_reason |-> row.approval_reason]

\* the body of ingest_build: guardrails, then the INSERT into ralph_builds;
\* nothing is written to ralph_review_queue.  The artifact is of one of the
\* projects `projects` and carries one of the signals `signals`
IngestArtifactOf(projects, signals) ==
    /\ \E p \in projects, t \in IngestTasks, cf \in IngestFiles, sig \in signals :
          builds' = Append(builds, [BuildRow(Len(builds) + 1, t, cf, sig)
                                      EXCEPT !.project_id = p])
    /\ UNCHANGED <<inspections, sub, apr, settings, revisions, tg, rev,
                   queueVars, limiterVars, reqlog, guardEval, rd>>

IngestArtifact == IngestArtifactOf({ DefaultProject }, IngestSignals)

\* ingest_build, while the store holds fewer than MaxBuilds builds
IngestBuild ==
    /\ Len(builds) < MaxBuilds
    /\ IngestArtifact

\* the build ids calls are made for: the builds there are, and build 1
\* before it exists (not found)
RequestedBuilds == IF builds = << >> THEN { 1 } ELSE DOMAIN builds

\* SELECT ... FROM ralph_builds WHERE build_id = $1
FindBuild(bs, build_id) == IF build_id \in DOMAIN bs THEN Some(bs[build_id]) ELSE None

\* the rows of ralph_inspections for (build, inspector)
ExistingInspections(ins, build_id, model) ==
    { k \in 1..Len(ins) : ins[k].build_id = build_id /\ ins[k].inspector_model = model }

\* uq_ralph_inspections_build_inspector
InspectionUniqueViolated(ins, row) ==
    ExistingInspections(ins, row.build_id, row.inspector_model) # {}

\* the build ids calls are made for where the store already holds builds:
\* the builds there are, and one more id, which no build has
CalledBuilds == DOMAIN builds \cup { Len(builds) + 1 }

\* handle_submit_inspection, first statement: fetch the build; the call is
\* for one of the build ids `ids`
SubmitFetchOf(c, ids) ==
    /\ sub[c].pc = "idle"
    /\ \E build_id \in ids, passed \in BOOLEAN :
          LET args == [build_id |-> build_id, passed |-> passed] IN
          sub' = [sub EXCEPT ![c] =
                    IF FindBuild(builds, build_id).some
                       THEN [pc |-> "check", args |-> Some(args), result |-> None]
                       ELSE [pc |-> "idle", args |-> Some(args),
                             result |-> Some([error |-> "not found"])]]
    /\ UNCHANGED <<builds, inspections, apr, settings, revisions, tg, rev,
                   queueVars, limiterVars, reqlog, guardEval, rd>>

SubmitFetch(c) == SubmitFetchOf(c, RequestedBuilds)

\* A plausible slip: the existing row is not looked for.
SubmitCheckExistingSkipped(c) ==
    /\ sub[c].pc = "check"
    /\ sub' = [sub EXCEPT ![c].pc = "insert"]
    /\ UNCHANGED <<builds, inspections, apr, settings, revisions, tg, rev,
                   queueVars, limiterVars, reqlog, guardEval, rd>>

\* second statement: SELECT the existing inspection; when there is one the
\* call returns it
SubmitCheckExisting(c) ==
    /\ sub[c].pc = "check"
    /\ LET ex == ExistingInspections(inspections, sub[c].args.val.build_id, INSPECTOR_MODEL) IN
        sub' = [sub EXCEPT ![c] =
                  IF ex # {}
                     THEN [pc |-> "idle", args |-> sub[c].args,
                           result |-> Some([status |-> "already_submitted",
                                            passed |-> inspections[CHOOSE k \in ex : TRUE].passed])]
                     ELSE [sub[c] EXCEPT !.pc = "insert"]]
    /\ UNCHANGED <<builds, inspections, apr, settings, revisions, tg, rev,
                   queueVars, limiterVars, reqlog, guardEval, rd>>

\* third statement: INSERT the inspection; the unique constraint may refuse
\* it, and the exception leaves the handler
SubmitInsert(c) ==
    /\ sub[c].pc = "insert"
    /\ LET a   == sub[c].args.val
           row == [build_id |-> a.build_id, inspector_model |-> INSPECTOR_MODEL,
                   passed |-> a.passed]
       IN  IF InspectionUniqueViolated(inspections, row)
              THEN /\ inspections' = inspections
                   /\ sub' = [sub EXCEPT ![c] =
                                [pc |-> "idle", args |-> sub[c].args,
                                 result |-> Some([raised |-> "UniqueViolationError"])]]
              ELSE /\ inspections' = Append(inspections, row)
                   /\ sub' = [sub EXCEPT ![c].pc = "update"]
    /\ UNCHANGED <<builds, apr, settings, revisions, tg, rev,
                   queueVars, limiterVars, reqlog, guardEval, rd>>

\* fourth statement: UPDATE ralph_builds SET inspection_status
SubmitUpdateBuild(c) ==
    /\ sub[c].pc = "update"
    /\ LET a          == sub[c].args.val
           new_status == IF a.passed THEN "PASSED" ELSE "FAILED"
       IN  /\ builds' = [builds EXCEPT ![a.build_id].inspection_status = new_status]
           /\ sub' = [sub EXCEPT ![c] =
                        [pc |-> "idle", args |-> sub[c].args,
                         result |-> Some([status |-> "submitted", passed |-> a.passed])]]
    /\ UNCHANGED <<inspections, apr, settings, revisions, tg, rev,
                   queueVars, limiterVars, reqlog, guardEval, rd>>

\* the UPDATE raises (connection lost, timeout): the exception leaves the
\* handler with the inspection stored and the build as it was
SubmitUpdateFails(c) ==
    /\ sub[c].pc = "update"
    /\ sub' = [sub EXCEPT ![c] =
                 [pc |-> "idle", args |-> sub[c].args,
                  result |-> Some([raised |-> "ConnectionError"])]]
    /\ UNCHANGED <<builds, inspections, apr, settings, revisions, tg, rev,
                   queueVars, limiterVars, reqlog, guardEval, rd>>

\* the iteration check of handle_approve_build
IterationGate(build) ==
    IF build.iteration_count >= APPROVE_ITERATION_LIMIT THEN "max_iterations" ELSE "deploy"

\* A plausible slip: the inspection verdict is not looked at.
ApproveGateAnyVerdict(found, human_approved_by) ==
    IF ~found.some THEN "not_found"
    ELSE IF found.val.requires_human_approval
         THEN IF ~Truthy(human_approved_by) THEN "needs_human" ELSE "human"
    ELSE IterationGate(found.val)

\* A plausible slip: an empty human_approved_by counts as an approval.
ApproveGateEmptyIdentity(found, human_approved_by) ==
    IF ~found.some THEN "not_found"
    ELSE IF found.val.inspection_status # "PASSED" THEN "not_passed"
    ELSE IF found.val.requires_human_approval
         THEN IF ~human_approved_by.some THEN "needs_human" ELSE "human"
    ELSE IterationGate(found.val)

\* handle_approve_build from the fetched row to its next awaited statement:
\* the error it returns, or the statement it goes on to
ApproveGate(found, human_approved_by) ==
    IF ~found.some THEN "not_found"
    ELSE IF found.val.inspection_status # "PASSED" THEN "not_passed"
    ELSE IF found.val.requires_human_approval
         THEN IF ~Truthy(human_approved_by) THEN "needs_human" ELSE "human"
    ELSE IterationGate(found.val)

\* the call returns an error, or goes on with the row it fetched
ApproveOutcome(c, args, build, gate) ==
    IF gate \in { "human", "deploy" }
       THEN [pc |-> gate, args |-> args, build |-> build, result |-> None]
       ELSE [pc |-> "idle", args |-> None, build |-> None,
             result |-> Some([error |-> gate, build_id |-> args.val.build_id])]

\* handle_approve_build, first statement: fetch the build, then the checks;
\* the call is for one of the build ids `ids`
ApproveFetchOf(c, ids) ==
    /\ apr[c].pc = "idle"
    /\ \E build_id \in ids, human \in HumanApprovers :
          LET args  == Some([build_id |-> build_id, human_approved_by |-> human])
              found == FindBuild(builds, build_id)
          IN  apr' = [apr EXCEPT ![c] = ApproveOutcome(c, args, found, ApproveGate(found, human))]
    /\ UNCHANGED <<builds, inspections, sub, settings, revisions, tg, rev,
                   queueVars, limiterVars, reqlog, guardEval, rd>>

ApproveFetch(c) == ApproveFetchOf(c, RequestedBuilds)

\* UPDATE ralph_builds SET human_approved_by; the iteration check follows,
\* on the row fetched at the start
ApproveHumanUpdate(c) ==
    /\ apr[c].pc = "human"
    /\ LET a == apr[c].args.val IN
        /\ builds' = [builds EXCEPT ![a.build_id].human_approved_by = a.human_approved_by]
        /\ apr' = [apr EXCEPT ![c] =
                     ApproveOutcome(c, apr[c].args, apr[c].build, IterationGate(apr[c].build.val))]
    /\ UNCHANGED <<inspections, sub, settings, revisions, tg, rev,
                   queueVars, limiterVars, reqlog, guardEval, rd>>

\* UPDATE ralph_builds SET builder_signal = 'DEPLOYED'; the call returns
\* "approved"
ApproveDeploy(c) ==
    /\ apr[c].pc = "deploy"
    /\ builds' = [builds EXCEPT ![apr[c].args.val.build_id].builder_signal = "DEPLOYED"]
    /\ apr' = [apr EXCEPT ![c] =
                 [pc |-> "idle", args |-> None, build |-> None,
                  result |-> Some([status |-> "approved",
                                   build_id |-> apr[c].args.val.build_id])]]
    /\ UNCHANGED <<inspections, sub, settings, revisions, tg, rev,
                   queueVars, limiterVars, reqlog, guardEval, rd>>

InitBuild ==
    /\ builds = << >>
    /\ inspections = << >>
    /\ sub = [c \in Reviewers |-> CallIdle]
    /\ apr = [c \in Approvers |-> [pc |-> "idle", args |-> None, build |-> None, result |-> None]]
    /\ settings \in { [MAX_ITERATIONS |-> m] : m \in ConfiguredMaxima }
    /\ revisions = {}
    /\ tg = [pc |-> "idle"]
    /\ rev = [pc |-> "idle"]
    /\ rd = None
    /\ QueueIdle /\ LimiterIdle
    /\ reqlog = << >>
    /\ guardEval = << >>

NextBuild ==
    \/ IngestBuild
    \/ \E c \in Reviewers : SubmitFetch(c)
    \/ \E c \in Reviewers : SubmitCheckExisting(c)
    \/ \E c \in Reviewers : SubmitInsert(c)
    \/ \E c \in Reviewers : SubmitUpdateBuild(c)
    \/ \E c \in Approvers : ApproveFetch(c)
    \/ \E c \in Approvers : ApproveHumanUpdate(c)
    \/ \E c \in Approvers : ApproveDeploy(c)

SpecBuild == InitBuild /\ [][NextBuild]_vars

(***************************************************************************)
(* Properties of submit_inspection and approve_build (SpecBuild).          *)
(***************************************************************************)
\* C3: a submit_inspection call for a build that already has an inspection
\* of the inspector returns status "already_submitted" with the stored
\* verdict, whatever verdict the call carries, and neither of its two
\* statements changes the inspections or any build (so no second record is
\* created and inspection_status stays as it was).
C3_SubmitIdempotent ==
    [][\A c \in Reviewers :
          /\ (sub[c].pc = "idle" /\ sub'[c] # sub[c]) =>
                (builds' = builds /\ inspections' = inspections)
          /\ (sub[c].pc = "check" /\ sub'[c] # sub[c]) =>
                LET ex == ExistingInspections(inspections, sub[c].args.val.build_id,
                                              INSPECTOR_MODEL)
                IN  ex # {} =>
                       /\ Cardinality(ex) = 1
                       /\ sub'[c].pc = "idle"
                       /\ sub'[c].result.some
                       /\ sub'[c].result.val.status = "already_submitted"
                       /\ \A k \in ex : sub'[c].result.val.passed = inspections[k].passed
                       /\ inspections' = inspections
                       /\ builds' = builds
      ]_vars

\* passed=True was stored for a build; a later call with passed=False got
\* "already_submitted" with passed=True back, and the build is still PASSED
C3_Witness ==
    \E c \in Reviewers :
        /\ sub[c].pc = "idle"
        /\ sub[c].result = Some([status |-> "already_submitted", passed |-> TRUE])
        /\ sub[c].args.val.passed = FALSE
        /\ Cardinality(ExistingInspections(inspections, sub[c].args.val.build_id,
                                           INSPECTOR_MODEL)) = 1
        /\ builds[sub[c].args.val.build_id].inspection_status = "PASSED"

\* the build an approve_build call that has just taken its first step is for
ApprovedBuildId(c) ==
    IF apr'[c].pc = "idle" THEN apr'[c].result.val.build_id ELSE apr'[c].args.val.build_id

\* C5: an approve_build call that finds its build with an inspection_status
\* other than PASSED returns the inspection error at once, and no build is
\* changed (builder_signal included).
C5_ApproveNeedsPassed ==
    [][\A c \in Approvers :
          (apr[c].pc = "idle" /\ apr'[c] # apr[c]) =>
             LET b == ApprovedBuildId(c) IN
             (b \in DOMAIN builds /\ builds[b].inspection_status # "PASSED") =>
                 /\ apr'[c].pc = "idle"
                 /\ apr'[c].result.val.error = "not_passed"
                 /\ builds' = builds
      ]_vars

\* approve_build was refused on a build whose inspection FAILED, and the
\* build still carries the signal it was ingested with
C5_Witness ==
    \E c \in Approvers :
        /\ apr[c].pc = "idle"
        /\ apr[c].result.some
        /\ apr[c].result.val.error = "not_passed"
        /\ builds[apr[c].result.val.build_id].inspection_status = "FAILED"
        /\ builds[apr[c].result.val.build_id].builder_signal = "READY_FOR_REVIEW"

\* C6 as stated: every build has iteration_count >= 1, and a build on which
\* approve_build succeeded has an iteration_count strictly below the
\* configured MAX_ITERATIONS.
C6_AsStated ==
    /\ \A b \in DOMAIN builds : builds[b].iteration_count >= 1
    /\ \A c \in Approvers :
          (apr[c].result.some /\ apr[c].result.val = [status |-> "approved",
                                                      build_id |-> apr[c].result.val.build_id])
             => builds[apr[c].result.val.build_id].iteration_count < settings.MAX_ITERATIONS

\* C10 as stated: at most one inspection per (build, inspector), and no
\* submit_inspection call ends in an exception: the call that loses the race
\* between the SELECT and the INSERT returns the stored verdict.
C10_AsStated ==
    /\ \A b \in DOMAIN builds :
          Cardinality(ExistingInspections(inspections, b, INSPECTOR_MODEL)) <= 1
    /\ \A c \in Reviewers :
          sub[c].result.some => sub[c].result.val # [raised |-> "UniqueViolationError"]

\* build b requires human approval and its inspection passed
NeedsHuman(b) ==
    /\ b \in DOMAIN builds
    /\ builds[b].requires_human_approval
    /\ builds[b].inspection_status = "PASSED"

\* a call with a non-empty human_approved_by goes on to record it
CanApproveAsHuman(c, b) ==
    ENABLED (/\ ApproveFetch(c)
             /\ apr'[c].pc = "human"
             /\ apr'[c].args.val = [build_id |-> b, human_approved_by |-> Some("mihai")])

\* C13: on a build that requires human approval and whose inspection PASSED,
\* approve_build without human_approved_by, or with an empty one, returns
\* the guardrail error and leaves every build unchanged; with a non-empty
\* one it goes on: it records the identity and, the iteration count being
\* below the limit, sets builder_signal to DEPLOYED and returns "approved".
C13_HumanApprovalGate ==
    /\ [](\A c \in Approvers, b \in DOMAIN builds :
            (apr[c].pc = "idle" /\ NeedsHuman(b)) => CanApproveAsHuman(c, b))
    /\ [][\A c \in Approvers :
            /\ (apr[c].pc = "idle" /\ apr'[c] # apr[c] /\ NeedsHuman(ApprovedBuildId(c))) =>
                  \/ /\ apr'[c].pc = "idle"
                     /\ apr'[c].result.val.error = "needs_human"
                     /\ builds' = builds
                  \/ /\ apr'[c].pc = "human"
                     /\ apr'[c].args.val.human_approved_by \notin { None, Some("") }
            /\ (apr[c].pc = "human" /\ apr'[c] # apr[c]) =>
                  LET a == apr[c].args.val IN
                  /\ builds'[a.build_id].human_approved_by = a.human_approved_by
                  /\ apr[c].build.val.iteration_count < APPROVE_ITERATION_LIMIT
                        => apr'[c].pc = "deploy"
            /\ (apr[c].pc = "deploy" /\ apr'[c] # apr[c]) =>
                  LET a == apr[c].args.val IN
                  /\ builds'[a.build_id].builder_signal = "DEPLOYED"
                  /\ apr'[c].result.val = [status |-> "approved", build_id |-> a.build_id]
                  /\ builds[a.build_id].requires_human_approval
                        => builds'[a.build_id].human_approved_by = a.human_approved_by
       ]_vars

\* a build that requires human approval was approved by "mihai" and deployed
C13_Witness ==
    \E c \in Approvers :
        /\ apr[c].pc = "idle"
        /\ apr[c].result.some
        /\ apr[c].result.val = [status |-> "approved", build_id |-> 1]
        /\ builds[1].requires_human_approval
        /\ builds[1].inspection_status = "PASSED"
        /\ builds[1].human_approved_by = Some("mihai")
        /\ builds[1].builder_signal = "DEPLOYED"

\* the verdicts stored for a build
VerdictsOf(b) ==
    { inspections[k].passed : k \in ExistingInspections(inspections, b, INSPECTOR_MODEL) }

\* C11 as stated: in every state, a build has an inspection with passed = p
\* if and only if its inspection_status is PASSED (p true) or FAILED (p
\* false), and a build without an inspection is PENDING.
C11_AsStated ==
    \A b \in DOMAIN builds :
        /\ VerdictsOf(b) = {} => builds[b].inspection_status = "PENDING"
        /\ \A p \in VerdictsOf(b) :
              builds[b].inspection_status = IF p THEN "PASSED" ELSE "FAILED"

(***************************************************************************)
(* The Telegram webhook (api/telegram_webhook) and request_revision.       *)
(***************************************************************************)
MaxRevisions == 2

\* approved_by = f"telegram:{user_name}({user_id})"
TelegramUser == "telegram:Mihai(123456)"

\* UPDATE ralph_builds SET ... WHERE build_id = $n: the row with field f set
\* to v, no row when the build does not exist
UpdateBuild(bs, build_id, f, v) ==
    IF build_id \in DOMAIN bs THEN [bs EXCEPT ![build_id][f] = v] ELSE bs

\* handle_approval: the approve button records the approver, whatever state
\* the build is in
TelegramApprove ==
    /\ tg.pc = "idle"
    /\ \E build_id \in RequestedBuilds :
          builds' = UpdateBuild(builds, build_id, "human_approved_by", Some(TelegramUser))
    /\ UNCHANGED <<inspections, sub, apr, settings, revisions, tg, rev,
                   queueVars, limiterVars, reqlog, guardEval, rd>>

\* handle_rejection, first statement: the reject button sets the build to
\* NEEDS_WORK / FAILED, whatever state it is in
TelegramRejectUpdate ==
    /\ tg.pc = "idle"
    /\ \E build_id \in RequestedBuilds :
          /\ builds' = UpdateBuild(UpdateBuild(builds, build_id, "builder_signal", "NEEDS_WORK"),
                                   build_id, "inspection_status", "FAILED")
          /\ tg' = [pc |-> "revision", build_id |-> build_id]
    /\ UNCHANGED <<inspections, sub, apr, settings, revisions, rev,
                   queueVars, limiterVars, reqlog, guardEval, rd>>

\* a row of ralph_revisions; revision_id is unique
RevisionRow(build_id, revision_id, created_at) ==
    [build_id |-> build_id, revision_id |-> revision_id, status |-> "PENDING",
     created_at |-> created_at]

\* the unique constraint on ralph_revisions.revision_id
RevisionIdTaken(rs, revision_id) == \E r \in rs : r.revision_id = revision_id

\* handle_rejection, second statement: INSERT INTO ralph_revisions ... SELECT
\* ... FROM ralph_builds WHERE build_id = $2, with revision_id
\* 'rev-' || build_id || '-rejected'; a unique violation is caught and logged
TelegramRejectRevision ==
    /\ tg.pc = "revision"
    /\ LET revision_id == [build_id |-> tg.build_id, kind |-> "rejected", n |-> 0] IN
        revisions' = IF tg.build_id \in DOMAIN builds /\ ~RevisionIdTaken(revisions, revision_id)
                        THEN revisions \cup { RevisionRow(tg.build_id, revision_id, Cardinality(revisions) + 1) }
                        ELSE revisions
    /\ tg' = [pc |-> "idle"]
    /\ UNCHANGED <<builds, inspections, sub, apr, settings, rev,
                   queueVars, limiterVars, reqlog, guardEval, rd>>

\* A plausible slip: the row is inserted without looking the build up.
RevisionFetchUnchecked(ids) ==
    /\ rev.pc = "idle"
    /\ Cardinality(revisions) < MaxRevisions
    /\ \E build_id \in ids : rev' = [pc |-> "insert", build_id |-> build_id]
    /\ UNCHANGED <<builds, inspections, sub, apr, settings, revisions, tg,
                   queueVars, limiterVars, reqlog, guardEval, rd>>

\* handle_request_revision, first statement: fetch the build; not found is
\* returned as an error.  The call is for one of the build ids `ids`
RevisionFetchOf(ids) ==
    /\ rev.pc = "idle"
    /\ Cardinality(revisions) < MaxRevisions
    /\ \E build_id \in ids :
          rev' = IF FindBuild(builds, build_id).some
                    THEN [pc |-> "insert", build_id |-> build_id]
                    ELSE [pc |-> "idle",
                          result |-> [error |-> "not found", build_id |-> build_id]]
    /\ UNCHANGED <<builds, inspections, sub, apr, settings, revisions, tg,
                   queueVars, limiterVars, reqlog, guardEval, rd>>

RevisionFetch == RevisionFetchOf(RequestedBuilds)

\* handle_request_revision, second statement: INSERT INTO ralph_revisions
\* with a fresh revision_id (timestamp and uuid)
RevisionInsert ==
    /\ rev.pc = "insert"
    /\ LET revision_id == [build_id |-> rev.build_id, kind |-> "requested",
                           n |-> Cardinality(revisions) + 1] IN
        revisions' = revisions \cup { RevisionRow(rev.build_id, revision_id, Cardinality(revisions) + 1) }
    /\ rev' = [pc |-> "idle"]
    /\ UNCHANGED <<builds, inspections, sub, apr, settings, tg,
                   queueVars, limiterVars, reqlog, guardEval, rd>>

(***************************************************************************)
(* SpecLoop: a build under every operation that writes ralph_builds,       *)
(* ralph_inspections or ralph_revisions, with one inspector.               *)
(***************************************************************************)
LoopReviewers == { "r1" }

InitLoop ==
    /\ builds = << >>
    /\ inspections = << >>
    /\ sub = [c \in LoopReviewers |-> CallIdle]
    /\ apr = [c \in Approvers |-> [pc |-> "idle", args |-> None, build |-> None, result |-> None]]
    /\ settings \in { [MAX_ITERATIONS |-> m] : m \in ConfiguredMaxima }
    /\ revisions = {}
    /\ tg = [pc |-> "idle"]
    /\ rev = [pc |-> "idle"]
    /\ rd = None
    /\ QueueIdle /\ LimiterIdle
    /\ reqlog = << >>
    /\ guardEval = << >>

NextLoop ==
    \/ IngestBuild
    \/ \E c \in LoopReviewers : SubmitFetch(c)
    \/ \E c \in LoopReviewers : SubmitCheckExisting(c)
    \/ \E c \in LoopReviewers : SubmitInsert(c)
    \/ \E c \in LoopReviewers : SubmitUpdateBuild(c)
    \/ \E c \in LoopReviewers : SubmitUpdateFails(c)
    \/ \E c \in Approvers : ApproveFetch(c)
    \/ \E c \in Approvers : ApproveHumanUpdate(c)
    \/ \E c \in Approvers : ApproveDeploy(c)
    \/ TelegramApprove
    \/ TelegramRejectUpdate
    \/ TelegramRejectRevision
    \/ RevisionFetch
    \/ RevisionInsert

SpecLoop == InitLoop /\ [][NextLoop]_vars

(***************************************************************************)
(* SpecTask: the successive builds of one task: ingest_build,              *)
(* submit_inspection by one inspector, approve_build.                      *)
(***************************************************************************)
MaxTaskBuilds == 2

\* ingest_build, while the store holds fewer than MaxTaskBuilds builds
TaskIngestBuild ==
    /\ Len(builds) < MaxTaskBuilds
    /\ IngestArtifact

NextTask ==
    \/ TaskIngestBuild
    \/ \E c \in LoopReviewers : SubmitFetch(c)
    \/ \E c \in LoopReviewers : SubmitCheckExisting(c)
    \/ \E c \in LoopReviewers : SubmitInsert(c)
    \/ \E c \in LoopReviewers : SubmitUpdateBuild(c)
    \/ \E c \in LoopReviewers : SubmitUpdateFails(c)
    \/ \E c \in Approvers : ApproveFetch(c)
    \/ \E c \in Approvers : ApproveHumanUpdate(c)
    \/ \E c \in Approvers : ApproveDeploy(c)

SpecTask == InitLoop /\ [][NextTask]_vars

(***************************************************************************)
(* Claims checked under SpecLoop.                                          *)
(***************************************************************************)
\* the step is the UPDATE of a submit_inspection call on build b
IsSubmitUpdateOf(b) ==
    \E c \in DOMAIN sub :
        /\ sub[c].pc = "update"
        /\ sub[c].args.val.build_id = b
        /\ sub'[c].pc = "idle"

\* C12 as stated: submit_inspection is the only operation that changes a
\* build's inspection_status, and a status that has left PENDING never
\* changes again.  The reject button of the Telegram webhook sets it to
\* FAILED on any build.
C12_AsStated ==
    [][\A b \in DOMAIN builds :
          builds'[b].inspection_status # builds[b].inspection_status
             => /\ IsSubmitUpdateOf(b)
                /\ builds[b].inspection_status = "PENDING"]_vars

(***************************************************************************)
(* SpecApprove: approve_build on a build row as ralph_builds can hold it   *)
(* when the service starts.                                                *)
(***************************************************************************)
\* the rows of ralph_builds the service may find in its database: every
\* column takes the values its type allows, iteration_count up to the limit
\* approve_build tests
StoredBuilds ==
    { [BuildRow(1, t, cf, sig) EXCEPT !.inspection_status = st,
                                      !.iteration_count = n,
                                      !.human_approved_by = h] :
        t \in IngestTasks, cf \in IngestFiles,
        sig \in { "READY_FOR_REVIEW", "NEEDS_WORK", "DEPLOYED" },
        st \in { "PENDING", "PASSED", "FAILED" },
        n \in 1 .. APPROVE_ITERATION_LIMIT,
        h \in { None, Some(TelegramUser) } }

\* the ralph_inspections row behind a stored verdict
StoredInspections(row) ==
    IF row.inspection_status = "PENDING" THEN << >>
    ELSE << [build_id |-> row.build_id, inspector_model |-> INSPECTOR_MODEL,
             passed |-> (row.inspection_status = "PASSED")] >>

InitApprove ==
    /\ \E row \in StoredBuilds :
          /\ builds = << row >>
          /\ inspections = StoredInspections(row)
    /\ sub = [c \in LoopReviewers |-> CallIdle]
    /\ apr = [c \in Approvers |-> [pc |-> "idle", args |-> None, build |-> None, result |-> None]]
    /\ settings \in { [MAX_ITERATIONS |-> m] : m \in ConfiguredMaxima }
    /\ revisions = {}
    /\ tg = [pc |-> "idle"]
    /\ rev = [pc |-> "idle"]
    /\ rd = None
    /\ QueueIdle /\ LimiterIdle
    /\ reqlog = << >>
    /\ guardEval = << >>

NextApprove ==
    \/ \E c \in Approvers : ApproveFetch(c)
    \/ \E c \in Approvers : ApproveHumanUpdate(c)
    \/ \E c \in Approvers : ApproveDeploy(c)

SpecApprove == InitApprove /\ [][NextApprove]_vars

\* the step ends an approve_build call of c with an error
ReturnsError(c) ==
    /\ apr'[c] # apr[c]
    /\ apr'[c].pc = "idle"
    /\ "error" \in DOMAIN apr'[c].result.val

C15_AsStated ==
    [][\A b \in DOMAIN builds :
          builds[b].builder_signal = "DEPLOYED" => builds'[b].builder_signal = "DEPLOYED"]_vars

(***************************************************************************)
(* Claims checked under SpecTask.                                          *)
(***************************************************************************)
\* the PENDING entries of the review queue for build b
QueuedFor(q, b) ==
    { k \in DOMAIN q : q[k].build_id = b /\ q[k].status = "PENDING" }

\* C16 as stated: ingest_build creates the build with inspection_status
\* PENDING and, exactly when builder_signal is READY_FOR_REVIEW, a PENDING
\* review-queue entry for it; review_queued in the response is true iff such
\* an entry exists after the call.
C16_AsStated ==
    [][Len(builds') = Len(builds) + 1 =>
          LET row == builds'[Len(builds')] IN
          /\ row.inspection_status = "PENDING"
          /\ (row.builder_signal = "READY_FOR_REVIEW") <=> (QueuedFor(queue', row.build_id) # {})
          /\ IngestResponse(row).review_queued <=> (QueuedFor(queue', row.build_id) # {})
      ]_vars

\* the builds stored for a task
BuildsOfTask(bs, task_id) == { b \in DOMAIN bs : bs[b].task_id = task_id }

\* the iteration_count of the latest build stored for a task, 0 when the
\* task has no build yet
PreviousIteration(bs, task_id) ==
    LET S == BuildsOfTask(bs, task_id) IN
    IF S = {} THEN 0
    ELSE bs[CHOOSE b \in S : \A x \in S : x <= b].iteration_count

\* C17 as stated: each ingest_build for a task creates a build with a new
\* build_id and an iteration_count one above that of the task's previous
\* build; the first build of a task has iteration_count 1.
C17_AsStated ==
    [][Len(builds') = Len(builds) + 1 =>
          LET row == builds'[Len(builds')] IN
          /\ \A b \in DOMAIN builds : builds[b].build_id # row.build_id
          /\ row.iteration_count = PreviousIteration(builds, row.task_id) + 1
      ]_vars

\* a build of the task has reached the configured maximum iteration_count
\* while its inspection is FAILED
Halted(bs, task_id) ==
    \E b \in BuildsOfTask(bs, task_id) :
        /\ bs[b].iteration_count >= settings.MAX_ITERATIONS
        /\ bs[b].inspection_status = "FAILED"

\* C18 as stated: once a build of a task has reached the configured maximum
\* iteration_count while FAILED, no further build of the task is queued for
\* review, and none is approved by a call that names no human approver.
C18_AsStated ==
    [][/\ \A c \in Approvers :
             (apr[c].pc = "deploy" /\ apr'[c] # apr[c]
                /\ ~Truthy(apr[c].args.val.human_approved_by))
                => ~Halted(builds, builds[apr[c].args.val.build_id].task_id)
       /\ \A b \in DOMAIN builds' :
             (Halted(builds, builds'[b].task_id) /\ QueuedFor(queue', b) # {})
                => QueuedFor(queue, b) # {}
      ]_vars

(***************************************************************************)
(* Further claims on enqueue_review, checked under Spec.                   *)
(***************************************************************************)
\* C19 as stated: the DELETE and the INSERT of enqueue_review are one atomic
\* unit: no step of a call leaves a key that had a PENDING row without one,
\* and every call's INSERT is accepted and leaves the key exactly one
\* PENDING row, the new one.
C19_AsStated ==
    [][\A c \in EnqClients :
          /\ IsDeleteStep(c) =>
                LET k == KeyOf(enq'[c].args) IN
                PendingOf(queue, k) # {} => PendingOf(queue', k) # {}
          /\ IsInsertStep(c) =>
                PendingOf(queue', KeyOf(enq[c].args)) = { nextId.row }
      ]_vars

\* the step is an enqueue_review call without task_id: a single statement
IsNoTaskStep ==
    /\ enq' = enq
    /\ nextId'.build = nextId.build + 1

\* C20: an enqueue_review call without task_id deletes and changes no queue
\* row and no dispatch record, whether the rows have a task_id or not; its
\* INSERT adds one PENDING row beside them, and is refused only for a
\* task_id of "" that already has a PENDING row, never for a NULL one.
C20_NoTaskNeverSupersedes ==
    [][IsNoTaskStep =>
          /\ \A id \in DOMAIN queue : id \in DOMAIN queue' /\ queue'[id] = queue[id]
          /\ dispatches' = dispatches
          /\ queue' # queue =>
                /\ DOMAIN queue' = DOMAIN queue \cup { nextId.row }
                /\ queue'[nextId.row].status = "PENDING"
                /\ ~Truthy(queue'[nextId.row].task_id)
          /\ queue' = queue =>
                \E id \in DOMAIN queue :
                    queue[id].status = "PENDING" /\ queue[id].task_id = Some("")
      ]_vars

\* two PENDING rows without task_id stand side by side for one project and
\* queue_type
C20_Witness ==
    \E a, b \in DOMAIN queue :
        /\ a # b
        /\ queue[a].status = "PENDING" /\ queue[b].status = "PENDING"
        /\ queue[a].task_id = None /\ queue[b].task_id = None
        /\ queue[a].project_id = queue[b].project_id
        /\ queue[a].queue_type = queue[b].queue_type

(***************************************************************************)
(* Further claims on the dispatch cycle, checked under Spec.               *)
(***************************************************************************)
\* the step is the fetch that opens a dispatch cycle
IsFetchStep == disp.pc = "idle" /\ disp'.pc # "idle"

\* row a has a strictly higher priority than row b, or the same priority
\* and an earlier created_at
Outranks(q, a, b) ==
    \/ q[a].priority > q[b].priority
    \/ q[a].priority = q[b].priority /\ q[a].created_at < q[b].created_at

\* the step sets queue row id to DISPATCHED
BecomesDispatched(id) ==
    /\ id \in DOMAIN queue /\ id \in DOMAIN queue'
    /\ queue[id].status # "DISPATCHED"
    /\ queue'[id].status = "DISPATCHED"

IsRefusalStep == disp.pc = "check" /\ disp'.pc = "done"

\* the dispatch records written for queue row id
RecordsOf(ds, id) == { n \in 1..Len(ds) : ds[n].review_queue_pk = id }

\* C22: when the rate limiter refuses an entry the cycle ends in that step:
\* no queue row and no dispatch record is written, the refused entry and
\* every fetched entry after it are still PENDING (unless enqueue_review
\* deleted them since the fetch) and have no dispatch record, and
\* rate_limited is the number fetched less those dispatched or failed, so
\* that the three counts add up to the number fetched.
C22_RefusalStopsCycle ==
    [][IsRefusalStep =>
          /\ queue' = queue
          /\ dispatches' = dispatches
          /\ disp'.dispatched = disp.dispatched /\ disp'.failed = disp.failed
          /\ disp'.rate_limited = Len(disp.fetched) - (disp.dispatched + disp.failed)
          /\ disp'.rate_limited >= 1
          /\ disp'.dispatched + disp'.failed + disp'.rate_limited = Len(disp.fetched)
          /\ \A k \in disp.i .. Len(disp.fetched) :
                LET id == disp.fetched[k].id IN
                /\ id \in DOMAIN queue' => queue'[id].status = "PENDING"
                /\ RecordsOf(dispatches', id) = {}
      ]_vars

\* a cycle that fetched two entries dispatched the first and was refused at
\* the second
C22_Witness ==
    /\ disp.pc = "done"
    /\ Len(disp.fetched) = 2
    /\ disp.dispatched = 1 /\ disp.failed = 0 /\ disp.rate_limited = 1
    /\ disp.final = << "DISPATCHED", "PENDING" >>

\* the step is a _check_rate_limit call that returned True: a whole token
\* was there and was consumed, or the limiter store was out of reach
IsAdmission ==
    /\ disp.pc = "check"
    /\ \/ /\ Refilled(bucket, now) >= OneToken
          /\ bucket' = RedisSet(Refilled(bucket, now) - OneToken, now)
          /\ disp'.limiter_worked = disp.limiter_worked
       \/ /\ bucket' = bucket
          /\ ~disp'.limiter_worked

\* C23: a queue row becomes DISPATCHED only from PENDING, only by the first
\* statement of the dispatcher's _dispatch_review on the entry the loop is
\* at, never by a step of enqueue_review; and the dispatcher reaches that
\* statement only through an admission of the rate limiter.
C23_OnlyDispatcherDispatches ==
    [][/\ \A id \in DOMAIN queue :
             BecomesDispatched(id) =>
                 /\ queue[id].status = "PENDING"
                 /\ disp.pc = "update" /\ disp'.pc = "log"
                 /\ disp.fetched[disp.i].id = id
                 /\ enq' = enq /\ nextId' = nextId
       /\ \A id \in DOMAIN queue' \ DOMAIN queue : queue'[id].status = "PENDING"
       /\ (disp'.pc = "update" /\ disp.pc # "update") => IsAdmission
      ]_vars

\* an entry was dispatched on a token taken from the bucket
C23_Witness ==
    /\ disp.pc = "log"
    /\ disp.limiter_worked
    /\ bucket.set /\ bucket.tokens = Capacity - OneToken
    /\ queue[disp.fetched[disp.i].id].status = "DISPATCHED"
    /\ enq["c1"].pc = "insert"

\* the step is the one in which _dispatch_review returns False and the
\* cycle counts the entry as failed
IsFailureCounted ==
    /\ disp.pc \in { "fail_update", "fail_log" }
    /\ disp'.pc \in { "check", "done" }
    /\ disp'.failed = disp.failed + 1

\* queue row id is FAILED with a non-empty error_message
FailedWithMessage(q, id) ==
    /\ id \in DOMAIN q
    /\ q[id].status = "FAILED"
    /\ Truthy(q[id].error_message)

\* a dispatch record with an error classification exists for queue row id
HasErrorRecord(ds, id) ==
    \E n \in RecordsOf(ds, id) : ds[n].error_type = Some("dispatch_error")

\* C24 as stated: when the dispatch of an entry fails and is counted as
\* failed, the entry is FAILED with a non-empty error_message, a dispatch
\* record with an error classification exists for it, and the cycle goes on
\* to the next fetched entry.
C24_AsStated ==
    [][IsFailureCounted =>
          LET id == disp.fetched[disp.i].id IN
          /\ FailedWithMessage(queue', id)
          /\ HasErrorRecord(dispatches', id)
          /\ disp.i < Len(disp.fetched) => (disp'.pc = "check" /\ disp'.i = disp.i + 1)
      ]_vars

\* C26 as stated: no failure is silent: whenever the cycle counts an entry
\* as failed, the store holds an auditable record of it, the entry being
\* FAILED with an error message or a dispatch record with an error
\* classification existing for it; also when the entry was superseded after
\* the fetch and when the failure-recording statements fail themselves.
C26_AsStated ==
    [][IsFailureCounted =>
          LET id == disp.fetched[disp.i].id IN
          FailedWithMessage(queue', id) \/ HasErrorRecord(dispatches', id)
      ]_vars

\* the checks of the running cycle so far, and whether every one of them
\* found the limiter store out of reach
ChecksDone == IF disp.pc = "check" THEN disp.i - 1 ELSE disp.i

LimiterDownThroughout == disp.pc # "idle" /\ disp.failed_open = ChecksDone

\* C27: the limiter fails open.  A _check_rate_limit call that finds its
\* store not configured, unreachable or raising admits the entry and writes
\* nothing to the bucket, whatever the bucket holds; and a cycle whose checks
\* all met that condition refuses nothing: it reports rate_limited = 0 and
\* attempts every entry it fetched.
C27_LimiterFailsOpen ==
    /\ [][(disp.pc = "check" /\ disp'.failed_open = disp.failed_open + 1) =>
             (disp'.pc = "update" /\ disp'.i = disp.i /\ bucket' = bucket)]_vars
    /\ [](LimiterDownThroughout =>
             /\ disp.rate_limited = 0
             /\ disp.pc = "done" =>
                    disp.dispatched + disp.failed = Len(disp.fetched))

\* a cycle went through both fetched entries on an exhausted bucket that no
\* check could read
C27_Witness ==
    /\ disp.pc = "done"
    /\ Len(disp.fetched) = 2
    /\ disp.failed_open = 2
    /\ Refilled(bucket, now) < OneToken
    /\ disp.rate_limited = 0
    /\ disp.dispatched + disp.failed = 2

(***************************************************************************)
(* SpecOverlap: the dispatcher job of two processes on one store and one   *)
(* Redis key.  max_instances=1 holds back a second run inside one          *)
(* scheduler only; every process that starts the application has a         *)
(* scheduler of its own.  Per instance the cycle is the one of Spec, with  *)
(* _check_rate_limit taken one awaited Redis command at a time.            *)
(***************************************************************************)
Dispatchers == { "d1", "d2" }

\* the entry instance d is at
CurrentOf(d) == inst[d].fetched[inst[d].i]

\* the for-loop of instance d goes on, or its cycle returns
LoopNextOf(r) ==
    IF r.i < Len(r.fetched)
        THEN [r EXCEPT !.pc = "check", !.i = r.i + 1]
        ELSE [r EXCEPT !.pc = "done"]

\* dispatch_pending_reviews of instance d up to the loop
InstFetch(d) ==
    /\ inst[d].pc = "idle"
    /\ LET fetched == fetch_pending_reviews(queue, DISPATCHER_BATCH_SIZE) IN
        inst' = [inst EXCEPT ![d] =
                    [pc |-> IF Len(fetched) = 0 THEN "done" ELSE "check",
                     fetched |-> fetched, i |-> IF Len(fetched) = 0 THEN 0 ELSE 1,
                     dispatched |-> 0, failed |-> 0, rate_limited |-> 0,
                     tokens |-> 0, error |-> ""]]
    /\ UNCHANGED <<queue, nextId, dispatches, enq, disp, dbFaults, limiterVars, buildVars,
                   reqlog, guardEval>>

\* _check_rate_limit up to its SET: without Redis it returns True; with
\* Redis it reads the key and refills; short of a token it returns False and
\* the cycle ends
InstRateGet(d) ==
    /\ inst[d].pc = "check"
    /\ \E up \in BOOLEAN :
        LET tokens == Refilled(bucket, now) IN
        inst' = [inst EXCEPT ![d] =
                    IF ~up THEN [inst[d] EXCEPT !.pc = "update"]
                    ELSE IF tokens >= OneToken
                            THEN [inst[d] EXCEPT !.pc = "set", !.tokens = tokens - OneToken]
                    ELSE [inst[d] EXCEPT !.pc = "done",
                                         !.rate_limited =
                                            Len(inst[d].fetched)
                                              - (inst[d].dispatched + inst[d].failed)]]
    /\ UNCHANGED <<queue, nextId, dispatches, enq, disp, dbFaults, limiterVars, buildVars,
                   reqlog, guardEval>>

\* _check_rate_limit, redis_client.set(key, f"{tokens}:{now}", ex=7200) with
\* the tokens computed from what was read; it returns True
InstRateSet(d) ==
    /\ inst[d].pc = "set"
    /\ bucket' = RedisSet(inst[d].tokens, now)
    /\ inst' = [inst EXCEPT ![d].pc = "update"]
    /\ UNCHANGED <<queue, nextId, dispatches, enq, disp, dbFaults, now, buildVars,
                   reqlog, guardEval>>

\* _dispatch_review, first statement: UPDATE ... SET status = 'DISPATCHED'
\* WHERE id = $1
InstDispatchUpdate(d) ==
    /\ inst[d].pc = "update"
    /\ queue' = UpdateStatus(queue, CurrentOf(d).id, "DISPATCHED", TRUE, None)
    /\ inst' = [inst EXCEPT ![d].pc = "log"]
    /\ UNCHANGED <<nextId, dispatches, enq, disp, dbFaults, limiterVars, buildVars,
                   reqlog, guardEval>>

\* _dispatch_review, second statement: INSERT the dispatch record
InstDispatchLog(d) ==
    /\ inst[d].pc = "log"
    /\ IF ForeignKeyViolated(queue, CurrentOf(d))
          THEN /\ dispatches' = dispatches
               /\ inst' = [inst EXCEPT ![d].pc = "fail_update",
                                       ![d].error = "ForeignKeyViolationError"]
          ELSE /\ dispatches' = Append(dispatches,
                                       DispatchRow(CurrentOf(d), 200, None, "dispatched"))
               /\ inst' = [inst EXCEPT ![d] =
                              LoopNextOf([inst[d] EXCEPT !.dispatched = inst[d].dispatched + 1])]
    /\ UNCHANGED <<queue, nextId, enq, disp, dbFaults, limiterVars, buildVars,
                   reqlog, guardEval>>

\* a statement of the try block raises
InstDispatchStoreError(d) ==
    /\ inst[d].pc \in { "update", "log" }
    /\ dbFaults < MaxDbFaults
    /\ dbFaults' = dbFaults + 1
    /\ inst' = [inst EXCEPT ![d].pc = "fail_update", ![d].error = "ConnectionError"]
    /\ UNCHANGED <<queue, nextId, dispatches, enq, disp, limiterVars, buildVars,
                   reqlog, guardEval>>

\* except branch, first statement: UPDATE ... SET status = 'FAILED'
InstFailUpdate(d) ==
    /\ inst[d].pc = "fail_update"
    /\ queue' = UpdateStatus(queue, CurrentOf(d).id, "FAILED",
                             IF CurrentOf(d).id \in DOMAIN queue
                                THEN queue[CurrentOf(d).id].dispatched ELSE FALSE,
                             Some(inst[d].error))
    /\ inst' = [inst EXCEPT ![d].pc = "fail_log"]
    /\ UNCHANGED <<nextId, dispatches, enq, disp, dbFaults, limiterVars, buildVars,
                   reqlog, guardEval>>

\* except branch, second statement: INSERT the failed dispatch record
InstFailLog(d) ==
    /\ inst[d].pc = "fail_log"
    /\ dispatches' = IF ForeignKeyViolated(queue, CurrentOf(d))
                        THEN dispatches
                        ELSE Append(dispatches,
                                    DispatchRow(CurrentOf(d), None, Some("dispatch_error"),
                                                inst[d].error))
    /\ inst' = [inst EXCEPT ![d] =
                   LoopNextOf([inst[d] EXCEPT !.failed = inst[d].failed + 1])]
    /\ UNCHANGED <<queue, nextId, enq, disp, dbFaults, limiterVars, buildVars,
                   reqlog, guardEval>>

\* a statement of the except branch raises: logged only
InstFailStoreError(d) ==
    /\ inst[d].pc \in { "fail_update", "fail_log" }
    /\ dbFaults < MaxDbFaults
    /\ dbFaults' = dbFaults + 1
    /\ inst' = [inst EXCEPT ![d] =
                   LoopNextOf([inst[d] EXCEPT !.failed = inst[d].failed + 1])]
    /\ UNCHANGED <<queue, nextId, dispatches, enq, disp, limiterVars, buildVars,
                   reqlog, guardEval>>

\* the job of instance d returns
InstReturn(d) ==
    /\ inst[d].pc = "done"
    /\ inst' = [inst EXCEPT ![d] = DispIdle]
    /\ UNCHANGED <<queue, nextId, dispatches, enq, disp, dbFaults, limiterVars, buildVars,
                   reqlog, guardEval>>

InitOverlap ==
    /\ queue = << >>
    /\ nextId = [row |-> 1, build |-> 1]
    /\ dispatches = << >>
    /\ enq = [c \in EnqClients |-> EnqIdle]
    /\ disp = DispIdle
    /\ inst = [d \in Dispatchers |-> DispIdle]
    /\ dbFaults = 0
    /\ bucket \in InitBuckets
    /\ now = 0
    /\ BuildIdle
    /\ reqlog = << >>
    /\ guardEval = << >>

NextOverlap ==
    \/ \E c \in EnqClients : EnqueueDelete(c)
    \/ \E c \in EnqClients : EnqueueInsert(c)
    \/ \E c \in EnqClients : EnqueueNoTask(c)
    \/ \E d \in Dispatchers : InstFetch(d)
    \/ \E d \in Dispatchers : InstRateGet(d)
    \/ \E d \in Dispatchers : InstRateSet(d)
    \/ \E d \in Dispatchers : InstDispatchUpdate(d)
    \/ \E d \in Dispatchers : InstDispatchLog(d)
    \/ \E d \in Dispatchers : InstDispatchStoreError(d)
    \/ \E d \in Dispatchers : InstFailUpdate(d)
    \/ \E d \in Dispatchers : InstFailLog(d)
    \/ \E d \in Dispatchers : InstFailStoreError(d)
    \/ \E d \in Dispatchers : InstReturn(d)

SpecOverlap == InitOverlap /\ [][NextOverlap]_vars

(***************************************************************************)
(* Claims checked under SpecOverlap.                                       *)
(***************************************************************************)
\* C25 as stated: FAILED is terminal for a queue entry: once a row is
\* FAILED no step, of an overlapping dispatch cycle or of any other
\* operation, changes its status or removes it.
C25_AsStated ==
    [][\A id \in DOMAIN queue :
          queue[id].status = "FAILED" =>
              (id \in DOMAIN queue' /\ queue'[id].status = "FAILED")]_vars

\* the dispatch records of a completed dispatch of entry id
SuccessRecordsOf(ds, id) ==
    { n \in RecordsOf(ds, id) : ds[n].error_type = None }

\* C28 as stated: when the cycles of two instances overlap and both fetched
\* the same PENDING entry, the entry is dispatched at most once: at most one
\* successful dispatch record exists for it.
C28_AsStated ==
    \A id \in DOMAIN queue : Cardinality(SuccessRecordsOf(dispatches, id)) <= 1

\* instance d is admitted on a token: its _check_rate_limit completes the SET
\* and returns True
IsTokenAdmission(d) == inst[d].pc = "set" /\ inst'[d].pc = "update"

\* C29 as stated: the bucket's read-modify-write is atomic between concurrent
\* instances, so admissions never exceed the tokens available: every
\* admission on a token finds a whole token in the bucket at that moment and
\* leaves the bucket one token lower.
C29_AsStated ==
    [][\A d \in Dispatchers :
          IsTokenAdmission(d) =>
              /\ Refilled(bucket, now) >= OneToken
              /\ Refilled(bucket', now') = Refilled(bucket, now) - OneToken]_vars

(***************************************************************************)
(* SpecCalls: submit_inspection, request_revision and approve_build called *)
(* for any build id, known or not, on a store that holds a build.          *)
(***************************************************************************)
NextCalls ==
    \/ \E c \in LoopReviewers : SubmitFetchOf(c, CalledBuilds)
    \/ \E c \in LoopReviewers : SubmitCheckExisting(c)
    \/ \E c \in LoopReviewers : SubmitInsert(c)
    \/ \E c \in LoopReviewers : SubmitUpdateBuild(c)
    \/ \E c \in Approvers : ApproveFetchOf(c, CalledBuilds)
    \/ \E c \in Approvers : ApproveHumanUpdate(c)
    \/ \E c \in Approvers : ApproveDeploy(c)
    \/ RevisionFetchOf(CalledBuilds)
    \/ RevisionInsert

SpecCalls == InitApprove /\ [][NextCalls]_vars

\* the step is the first statement of a submit_inspection call of c for
\* build_id
SubmitCalledFor(c, build_id) ==
    /\ sub[c].pc = "idle" /\ sub'[c] # sub[c]
    /\ sub'[c].args.val.build_id = build_id

\* the step is the first statement of an approve_build call of c for
\* build_id: it goes on with the arguments, or returns an error that names
\* the build
ApproveCalledFor(c, build_id) ==
    /\ apr[c].pc = "idle" /\ apr'[c] # apr[c]
    /\ IF apr'[c].pc = "idle"
          THEN "error" \in DOMAIN apr'[c].result.val
               /\ apr'[c].result.val.build_id = build_id
          ELSE apr'[c].args.val.build_id = build_id

\* the step is the first statement of a request_revision call for build_id
RevisionCalledFor(build_id) ==
    /\ rev.pc = "idle" /\ rev' # rev
    /\ IF rev'.pc = "idle" THEN rev'.result.build_id = build_id
                           ELSE rev'.build_id = build_id

StoreUnchanged ==
    builds' = builds /\ inspections' = inspections /\ revisions' = revisions

\* C30: submit_inspection, request_revision and approve_build called with a
\* build_id that no build has return a not-found error in their first
\* statement, which ends the call, and change no state: no inspection and no
\* revision is created and no build is modified.
C30_UnknownBuildNotFound ==
    [][\A build_id \in CalledBuilds \ DOMAIN builds :
          /\ \A c \in LoopReviewers :
                SubmitCalledFor(c, build_id) =>
                    /\ sub'[c].pc = "idle"
                    /\ sub'[c].result = Some([error |-> "not found"])
                    /\ StoreUnchanged
          /\ \A c \in Approvers :
                ApproveCalledFor(c, build_id) =>
                    /\ apr'[c].pc = "idle"
                    /\ apr'[c].result.val.error = "not_found"
                    /\ StoreUnchanged
          /\ RevisionCalledFor(build_id) =>
                    /\ rev'.pc = "idle"
                    /\ rev'.result.error = "not found"
                    /\ StoreUnchanged
      ]_vars

\* on a store holding an inspected build, each of the three operations has
\* returned not found for build id 2
C30_Witness ==
    /\ Len(builds) = 1 /\ Len(inspections) = 1
    /\ \E c \in LoopReviewers :
          /\ sub[c].pc = "idle"
          /\ sub[c].result = Some([error |-> "not found"])
          /\ sub[c].args.val.build_id = 2
    /\ \E c \in Approvers :
          /\ apr[c].pc = "idle"
          /\ apr[c].result = Some([error |-> "not_found", build_id |-> 2])
    /\ rev = [pc |-> "idle", result |-> [error |-> "not found", build_id |-> 2]]

(***************************************************************************)
(* The read-only tools of the MCP server (app/mcp/server.py).              *)
(***************************************************************************)
\* the projects that post artifacts and call the tools
Projects == { "p1", "p2" }

\* ORDER BY created_at DESC
RECURSIVE NewestFirst(_)
NewestFirst(rows) ==
    IF rows = {} THEN << >>
    ELSE LET r == CHOOSE x \in rows : \A y \in rows : y.created_at <= x.created_at
         IN  << r >> \o NewestFirst(rows \ { r })

\* the rows of the two queries of handle_get_pending_revisions: with a
\* build_id, WHERE r.build_id = $1 AND r.status = 'PENDING'; without,
\* WHERE b.project_id = $1 AND r.status = 'PENDING'; both over
\* ralph_revisions JOIN ralph_builds
PendingRevisionRows(rs, bs, project_id, build_id) ==
    IF build_id.some
       THEN { r \in rs : /\ r.build_id \in DOMAIN bs
                         /\ r.build_id = build_id.val
                         /\ r.status = "PENDING" }
       ELSE { r \in rs : /\ r.build_id \in DOMAIN bs
                         /\ bs[r.build_id].project_id = project_id
                         /\ r.status = "PENDING" }

\* the list handle_get_pending_revisions returns
get_pending_revisions(rs, bs, project_id, build_id) ==
    LET rows == NewestFirst(PendingRevisionRows(rs, bs, project_id, build_id)) IN
    [k \in 1..Len(rows) |->
        [revision_id |-> rows[k].revision_id, build_id |-> rows[k].build_id,
         project_id |-> bs[rows[k].build_id].project_id,
         status |-> rows[k].status, created_at |-> rows[k].created_at]]

\* a get_pending_revisions call of a builder: one SELECT
GetPendingRevisions ==
    /\ \E project_id \in Projects,
          build_id \in { None } \cup { Some(b) : b \in DOMAIN builds } :
          rd' = Some([tool |-> "get_pending_revisions",
                      project_id |-> project_id, build_id |-> build_id,
                      result |-> get_pending_revisions(revisions, builds,
                                                       project_id, build_id)])
    /\ UNCHANGED <<builds, inspections, sub, apr, settings, revisions, tg, rev,
                   queueVars, limiterVars, reqlog, guardEval>>

(***************************************************************************)
(* SpecRevise: builders of two projects post builds, the reviewer requests *)
(* revisions, the builders fetch them.                                     *)
(***************************************************************************)
MaxReviseBuilds == 2

\* ingest_build by either project, while the store holds fewer than
\* MaxReviseBuilds builds
ReviseIngest ==
    /\ Len(builds) < MaxReviseBuilds
    /\ IngestArtifactOf(Projects, IngestSignals)

NextRevise ==
    \/ ReviseIngest
    \/ RevisionFetch
    \/ RevisionInsert
    \/ GetPendingRevisions

SpecRevise == InitLoop /\ [][NextRevise]_vars

\* the step is a get_pending_revisions call
IsGetPendingRevisions ==
    /\ rd' # rd
    /\ rd'.val.tool = "get_pending_revisions"

\* C31 as stated: get_pending_revisions(project_id, build_id?) returns
\* exactly the PENDING revisions of builds of the given project, of the given
\* build only when build_id is supplied, newest first, never a revision of a
\* build of another project, and changes no state.
C31_AsStated ==
    [][IsGetPendingRevisions =>
          LET call     == rd'.val
              expected == { r \in revisions :
                              /\ r.status = "PENDING"
                              /\ builds[r.build_id].project_id = call.project_id
                              /\ call.build_id.some => r.build_id = call.build_id.val }
          IN  /\ { call.result[k].revision_id : k \in 1..Len(call.result) }
                    = { r.revision_id : r \in expected }
              /\ Len(call.result) = Cardinality(expected)
              /\ \A k \in 1..Len(call.result) - 1 :
                    call.result[k].created_at >= call.result[k + 1].created_at
              /\ \A k \in 1..Len(call.result) :
                    call.result[k].project_id = call.project_id
              /\ builds' = builds /\ revisions' = revisions /\ inspections' = inspections
      ]_vars

\* the builder has fetched revision r: the last get_pending_revisions call
\* returned it
FetchedRevision(r) ==
    /\ rd.some /\ rd.val.tool = "get_pending_revisions"
    /\ \E k \in 1..Len(rd.val.result) : rd.val.result[k].revision_id = r.revision_id

\* the step is ingest_build of a resubmission of build b: a new build of the
\* project and task of b
IsResubmissionOf(b) ==
    /\ Len(builds') = Len(builds) + 1
    /\ builds'[Len(builds')].project_id = builds[b].project_id
    /\ builds'[Len(builds')].task_id = builds[b].task_id

\* C32 as stated: a revision is created PENDING, and when the builder has
\* fetched it and resubmits, its status is advanced out of PENDING, so that
\* get_pending_revisions no longer returns it.
C32_AsStated ==
    [][\A r \in revisions :
          (r.status = "PENDING" /\ FetchedRevision(r) /\ IsResubmissionOf(r.build_id))
              => \E r2 \in revisions' :
                    r2.revision_id = r.revision_id /\ r2.status # "PENDING"
      ]_vars

(***************************************************************************)
(* SpecReady: get_latest_ready_build on the build stores two projects can  *)
(* have left behind.                                                       *)
(***************************************************************************)
MaxStoredBuilds == 2

\* builder_signal as an artifact can carry it, inspection_status as
\* submit_inspection and the reject button leave it
BuilderSignals == { "READY_FOR_REVIEW", "NEEDS_WORK", "DEPLOYED" }
InspectionStatuses == { "PENDING", "PASSED", "FAILED" }

\* the rows build k can be: posted by either project with any signal, with
\* or without a verdict
ReadyRows(k) ==
    { [BuildRow(k, Some("t1"), Some(<< "README.md" >>), sig)
          EXCEPT !.project_id = p, !.inspection_status = st] :
        p \in Projects, sig \in BuilderSignals, st \in InspectionStatuses }

\* ralph_builds holding n builds, in the order they were created
RECURSIVE ReadyStores(_)
ReadyStores(n) ==
    IF n = 0 THEN { << >> }
    ELSE { Append(bs, row) : bs \in ReadyStores(n - 1), row \in ReadyRows(n) }

\* the ralph_inspections rows behind the verdicts of a store
RECURSIVE InspectionsOf(_)
InspectionsOf(bs) ==
    IF bs = << >> THEN << >>
    ELSE InspectionsOf(SubSeq(bs, 1, Len(bs) - 1)) \o StoredInspections(bs[Len(bs)])

\* WHERE project_id = $1 AND builder_signal = 'READY_FOR_REVIEW'
\*   AND inspection_status = 'PENDING'
ReadyBuilds(bs, project_id) ==
    { k \in DOMAIN bs : /\ bs[k].project_id = project_id
                        /\ bs[k].builder_signal = "READY_FOR_REVIEW"
                        /\ bs[k].inspection_status = "PENDING" }

\* A plausible slip: ORDER BY created_at without DESC.
get_latest_ready_build_oldest(bs, project_id) ==
    LET ready == ReadyBuilds(bs, project_id) IN
    IF ready = {} THEN None
    ELSE Some(bs[CHOOSE k \in ready : \A j \in ready : k <= j])

\* handle_get_latest_ready_build: ORDER BY created_at DESC LIMIT 1 over the
\* ready builds of the project; None without a row
get_latest_ready_build(bs, project_id) ==
    LET ready == ReadyBuilds(bs, project_id) IN
    IF ready = {} THEN None
    ELSE Some(bs[CHOOSE k \in ready : \A j \in ready : j <= k])

\* a get_latest_ready_build call of the reviewer: one SELECT
GetLatestReadyBuild ==
    /\ \E project_id \in Projects :
          rd' = Some([tool |-> "get_latest_ready_build", project_id |-> project_id,
                      result |-> get_latest_ready_build(builds, project_id)])
    /\ UNCHANGED <<builds, inspections, sub, apr, settings, revisions, tg, rev,
                   queueVars, limiterVars, reqlog, guardEval>>

InitReady ==
    /\ \E n \in 0..MaxStoredBuilds : builds \in ReadyStores(n)
    /\ inspections = InspectionsOf(builds)
    /\ sub = [c \in LoopReviewers |-> CallIdle]
    /\ apr = [c \in Approvers |-> [pc |-> "idle", args |-> None, build |-> None, result |-> None]]
    /\ settings = [MAX_ITERATIONS |-> 3]
    /\ revisions = {}
    /\ tg = [pc |-> "idle"]
    /\ rev = [pc |-> "idle"]
    /\ rd = None
    /\ QueueIdle /\ LimiterIdle
    /\ reqlog = << >>
    /\ guardEval = << >>

NextReady == GetLatestReadyBuild

SpecReady == InitReady /\ [][NextReady]_vars

\* the step is a get_latest_ready_build call
IsGetLatestReadyBuild ==
    /\ rd' # rd
    /\ rd'.val.tool = "get_latest_ready_build"

\* build k is of the project, signalled READY_FOR_REVIEW and without verdict
AwaitsReview(k, project_id) ==
    /\ builds[k].project_id = project_id
    /\ builds[k].builder_signal = "READY_FOR_REVIEW"
    /\ builds[k].inspection_status = "PENDING"

\* C33: get_latest_ready_build for a project returns nothing exactly when no
\* build of the project is READY_FOR_REVIEW with inspection_status PENDING;
\* otherwise it returns such a build of that project, the most recently
\* created one, so never a build of another project, one with a verdict, or
\* a DEPLOYED or NEEDS_WORK one; and it changes no state.
C33_LatestReadyBuild ==
    [][IsGetLatestReadyBuild =>
          LET call == rd'.val IN
          /\ ~call.result.some <=> ~\E k \in DOMAIN builds : AwaitsReview(k, call.project_id)
          /\ call.result.some =>
                LET b == call.result.val IN
                /\ b.build_id \in DOMAIN builds /\ builds[b.build_id] = b
                /\ AwaitsReview(b.build_id, call.project_id)
                /\ \A k \in DOMAIN builds :
                      AwaitsReview(k, call.project_id) => k <= b.build_id
          /\ builds' = builds /\ inspections' = inspections /\ revisions' = revisions
      ]_vars

\* project p1 was handed its newest ready build, build 2, past an older
\* ready build of its own
C33_Witness ==
    /\ Len(builds) = 2
    /\ AwaitsReview(1, "p1") /\ AwaitsReview(2, "p1")
    /\ rd.some /\ rd.val.tool = "get_latest_ready_build"
    /\ rd.val.project_id = "p1"
    /\ rd.val.result.some /\ rd.val.result.val.build_id = 2

(***************************************************************************)
(* Further claims on the queue and the dispatch log, checked under Spec.   *)
(***************************************************************************)
\* the step ends the dispatch attempt of the entry the loop is at: the cycle
\* counts it as dispatched or as failed
IsAttemptCounted ==
    /\ disp.pc \in { "log", "fail_update", "fail_log" }
    /\ disp'.pc \in { "check", "done" }
    /\ disp'.dispatched + disp'.failed = disp.dispatched + disp.failed + 1

\* the log only grows at its end
DispatchLogKept ==
    /\ Len(dispatches') >= Len(dispatches)
    /\ SubSeq(dispatches', 1, Len(dispatches)) = dispatches

\* C34 as stated: the dispatch log is append-only and complete: no step
\* modifies or removes a dispatch record, and every dispatch attempt the rate
\* limiter admitted has left a dispatch record for its queue entry, success
\* or error, when the attempt ends.
C34_AsStated ==
    [][/\ DispatchLogKept
       /\ IsAttemptCounted => RecordsOf(dispatches', disp.fetched[disp.i].id) # {}
      ]_vars

\* the dispatcher is between the statements of _dispatch_review for entry id
DispatchInFlight(id) ==
    /\ disp.pc \in { "update", "log", "fail_update", "fail_log" }
    /\ disp.fetched[disp.i].id = id

\* C35 as stated: a queue entry is never half-committed: whenever no
\* dispatch of it is in flight, the entry is DISPATCHED if and only if a
\* successful dispatch record exists for it, and its dispatched_at is set
\* exactly in that case.
C35_AsStated ==
    \A id \in DOMAIN queue :
        ~DispatchInFlight(id) =>
            /\ queue[id].status = "DISPATCHED" <=> SuccessRecordsOf(dispatches, id) # {}
            /\ queue[id].dispatched <=> SuccessRecordsOf(dispatches, id) # {}

(***************************************************************************)
(* SpecDeploy: a build posted with any builder signal, inspected and       *)
(* approved.                                                               *)
(***************************************************************************)
\* ingest_build of an artifact with any of the signals BuildArtifact
\* documents, while the store holds fewer than MaxBuilds builds
DeployIngest ==
    /\ Len(builds) < MaxBuilds
    /\ IngestArtifactOf({ DefaultProject }, BuilderSignals)

NextDeploy ==
    \/ DeployIngest
    \/ \E c \in LoopReviewers : SubmitFetch(c)
    \/ \E c \in LoopReviewers : SubmitCheckExisting(c)
    \/ \E c \in LoopReviewers : SubmitInsert(c)
    \/ \E c \in LoopReviewers : SubmitUpdateBuild(c)
    \/ \E c \in Approvers : ApproveFetch(c)
    \/ \E c \in Approvers : ApproveHumanUpdate(c)
    \/ \E c \in Approvers : ApproveDeploy(c)

SpecDeploy == InitLoop /\ [][NextDeploy]_vars

\* C36 as stated: every DEPLOYED build has inspection_status PASSED and, when
\* it requires human approval, a non-empty human_approved_by, whatever
\* ingestion, submit_inspection, approve_build and the approval buttons did.
C36_AsStated ==
    \A b \in DOMAIN builds :
        builds[b].builder_signal = "DEPLOYED" =>
            /\ builds[b].inspection_status = "PASSED"
            /\ builds[b].requires_human_approval => Truthy(builds[b].human_approved_by)

(***************************************************************************)
(* The token bucket under one dispatcher, checked under SpecLimiter.       *)
(***************************************************************************)
\* the step is a _check_rate_limit call
IsLimiterRequest == Len(reqlog') = Len(reqlog) + 1

\* the key is absent or its TTL has run out
BucketMissing == ~bucket.set \/ now >= bucket.expires_at

\* the tokens the call finds: the stored count plus the refill for the time
\* since the last update, capped; a full bucket when the key is missing
TokensFound ==
    IF BucketMissing THEN Capacity
    ELSE Min(Capacity, bucket.tokens + (now - bucket.last_update) * REVIEW_RATE_LIMIT)

\* C37: with one dispatcher the stored token count is always between 0 and
\* the capacity; a request is admitted exactly when the refilled count is at
\* least one token; an admission stores the refilled count less one token,
\* stamped with the current time; a refusal leaves the stored tokens and
\* last-update time as they were; a missing or expired bucket counts as full.
C37_TokenBucketInvariant ==
    /\ [](bucket.set => (0 <= bucket.tokens /\ bucket.tokens <= Capacity))
    /\ [][IsLimiterRequest =>
             LET req == reqlog'[Len(reqlog')] IN
             /\ req.allowed <=> TokensFound >= OneToken
             /\ req.allowed =>
                    /\ bucket'.set
                    /\ bucket'.tokens = TokensFound - OneToken
                    /\ bucket'.last_update = now
             /\ ~req.allowed => bucket' = bucket
             /\ BucketMissing => (req.allowed /\ bucket'.tokens = Capacity - OneToken)
         ]_vars

\* a request was refused on an empty bucket, and after the time for one
\* token had passed since the last admission the next one was admitted,
\* leaving the bucket empty again
C37_Witness ==
    /\ \E i \in 1..Len(reqlog) - 1 :
          /\ ~reqlog[i].allowed
          /\ reqlog[i + 1].allowed
          /\ reqlog[i + 1].t > reqlog[i].t
          /\ reqlog[i + 1].refilled = OneToken
    /\ bucket.set /\ bucket.tokens = 0 /\ bucket.last_update = now

(***************************************************************************)
(* SpecLive: the queue and the dispatcher with time passing, under the     *)
(* scheduler's fairness: the interval job keeps being run and every        *)
(* awaited statement of a running cycle completes.                         *)
(***************************************************************************)
\* half the time one token takes to accrue
LiveClockStep == REVIEW_RATE_WINDOW \div (2 * REVIEW_RATE_LIMIT)

\* time passes between two runs of the interval job.  Time is told apart
\* while the bucket holds less than one token, that is while a request is
\* refused and its entry has to wait for a later cycle.
LiveTick ==
    /\ Refilled(bucket, now) < OneToken
    /\ disp.pc = "idle"
    /\ now' = now + LiveClockStep
    /\ UNCHANGED <<bucket, reqlog, queueVars, buildVars, guardEval>>

\* the steps of a dispatch cycle
CycleStep ==
    \/ CycleFetch
    \/ RateLimitStep
    \/ DispatchUpdate
    \/ DispatchLog
    \/ DispatchStoreError
    \/ FailUpdate
    \/ FailLog
    \/ FailStoreError
    \/ CycleReturn

\* one caller enqueues; its builds are of one task, or of none
LiveInputs ==
    { in \in EnqueueInputs : in.priority = 5 /\ in.queue_type = "CODE" /\ in.task_id # Some("") }

LiveEnqueueDelete == EnqueueDeleteOf("c1", LiveInputs)

LiveEnqueueInsert == EnqueueInsert("c1")

LiveEnqueueNoTask == EnqueueNoTaskOf("c1", LiveInputs)

NextLive ==
    \/ LiveEnqueueDelete
    \/ LiveEnqueueInsert
    \/ LiveEnqueueNoTask
    \/ CycleStep
    \/ LiveTick

\* the window's tokens are used up when the first entry arrives
InitLive ==
    /\ Init
    /\ bucket = RedisSet(0, 0)

SpecLive ==
    /\ InitLive
    /\ [][NextLive]_vars
    /\ WF_vars(CycleStep)
    /\ SF_vars(LiveTick)

IsPendingRow(id) == id \in DOMAIN queue /\ queue[id].status = "PENDING"

\* C38: with the cycle kept running and time passing, every entry that is
\* PENDING eventually is not PENDING any more: it is DISPATCHED or FAILED, or
\* its row has been deleted by a newer enqueue for its key.
C38_PendingLeaves ==
    \A id \in 1..MaxEnqueues : IsPendingRow(id) ~> ~IsPendingRow(id)

\* an entry was refused on an empty bucket, waited for a token and is DISPATCHED
C38_Witness ==
    /\ \E id \in DOMAIN queue : queue[id].status = "DISPATCHED"
    /\ bucket.set /\ bucket.last_update > 0 /\ bucket.tokens < OneToken

(***************************************************************************)
(* SpecGate: the reviewer's two tools on ingested builds: the reviewer     *)
(* asks for the next ready build and records verdicts.  No caller of       *)
(* enqueue_review exists, so the review queue stays as it was created.     *)
(***************************************************************************)
NextGate ==
    \/ IngestBuild
    \/ GetLatestReadyBuild
    \/ \E c \in Reviewers : SubmitFetch(c)
    \/ \E c \in Reviewers : SubmitCheckExisting(c)
    \/ \E c \in Reviewers : SubmitInsert(c)
    \/ \E c \in Reviewers : SubmitUpdateBuild(c)

SpecGate == InitBuild /\ [][NextGate]_vars

HasDispatchedEntry(build_id) ==
    \E id \in DOMAIN queue :
        queue[id].build_id = build_id /\ queue[id].status = "DISPATCHED"

\* C39 as stated: the build get_latest_ready_build hands to a reviewer, and
\* every build a verdict is recorded for, has a review queue entry that is
\* DISPATCHED; a build with a PENDING entry or with no entry is not handed out.
C39_AsStated ==
    /\ (rd # None /\ rd.val.tool = "get_latest_ready_build" /\ rd.val.result.some)
          => HasDispatchedEntry(rd.val.result.val.build_id)
    /\ \A i \in DOMAIN inspections : HasDispatchedEntry(inspections[i].build_id)

\* the entry is in the queue with status DISPATCHED
IsDispatchedRow(q, id) == id \in DOMAIN q /\ q[id].status = "DISPATCHED"

\* C40 as stated: no queue entry ever has status COMPLETED, and an entry that
\* is DISPATCHED stays in the queue with status DISPATCHED in every later state.
C40_AsStated ==
    /\ [](\A id \in DOMAIN queue : queue[id].status # "COMPLETED")
    /\ [][\A id \in DOMAIN queue : IsDispatchedRow(queue, id) => IsDispatchedRow(queue', id)]_vars

====
